---- MODULE Spec2Model ----
(***************************************************************************)
(* A model of the bonsaiOS sheaf solver (kernel/sheaf_solver): the cyclic  *)
(* group character machinery and UnifiedSheafLearner (fit / predict).      *)
(*                                                                         *)
(* Matrices are kept entry by entry.  An entry ("cell") is one of          *)
(*   [k |-> "int", v]          an exact integer (targets, explicit zeros)  *)
(*   [k |-> "val", n, num, den] the complex number                         *)
(*                              (SUM_e num[e] * omega_n^e) / den           *)
(*   [k |-> "w", i]            component i of the vector the linear        *)
(*                              algebra backend solved for                 *)
(*   [k |-> "uninit"]          storage that was allocated, never assigned  *)
(*   [k |-> "garbage"]         the result of a read outside an object      *)
(* Indices are 0-based as in the C++ source.                               *)
(***************************************************************************)
EXTENDS Integers, Sequences, FiniteSets, TLC

\* ------------------------------------------------------------- bounds
MaxPatches  == 2      \* patches per problem (one-call specification)
MaxLifePatches == 1   \* patches per problem (solver life specification)
MaxGluings  == 1      \* gluing constraints per problem
MaxSamples  == 1      \* samples per patch
MaxPositions == 2     \* largest n_positions of a config
MaxCharacters == 2    \* largest n_characters of a config
MaxRows == 2          \* longest signal
MaxOrder == 3         \* largest group order n (group and predict specifications)
MaxKernelPatches == 2 \* patches of a kernel SheafProblem
MaxKernelSamples == 3 \* samples of a kernel patch
MaxTarget == 3        \* largest target of a kernel patch
MaxLines == 2         \* lines the console reads
MaxVaried == 1        \* leading positions of a line typed with varied characters
MaxFileSize == 2      \* largest size of the kernel file

\* ------------------------------------------------------------- helpers
Min(a, b) == IF a < b THEN a ELSE b

RECURSIVE SumFn(_, _)
SumFn(f, S) ==
    IF S = {} THEN 0
    ELSE LET x == CHOOSE y \in S : TRUE IN f[x] + SumFn(f, S \ {x})

\* std::unordered_map: a function whose DOMAIN is the set of keys present.
EmptyMap == [x \in {} |-> 0]
MapPut(m, key, v) == [x \in (DOMAIN m) \cup {key} |-> IF x = key THEN v ELSE m[x]]

\* ------------------------------------------------------------- reals
\* A real_t (double) that is 0, NaN, or m * 10^e with 1 <= m <= 9.
Real(m, e) == [nan |-> FALSE, m |-> m, e |-> e]
RZero == Real(0, 0)
ROne == Real(1, 0)
RNaN == [nan |-> TRUE, m |-> 0, e |-> 0]

\* x < y on doubles: every comparison with NaN is false.
RLess(x, y) ==
    /\ ~x.nan
    /\ ~y.nan
    /\ \/ x.m = 0 /\ y.m > 0
       \/ x.m > 0 /\ y.m > 0 /\ (x.e < y.e \/ (x.e = y.e /\ x.m < y.m))

\* x >= 0 on doubles (the values of this model carry no sign: a squared
\* norm is never negative).
RNonNeg(x) == ~x.nan

\* types.hpp: constexpr real_t EPSILON = 1e-12
EPSILON == Real(1, 0 - 12)

\* ------------------------------------------------------------- cells
IntCell(v) == [k |-> "int", v |-> v]
ZeroCell == IntCell(0)
Uninit == [k |-> "uninit"]
Garbage == [k |-> "garbage"]
WCell(i) == [k |-> "w", i |-> i]
IsIndeterminate(c) == c.k \in {"uninit", "garbage"}

\* A Matrix: rows, cols and the entries at[<<r, c>>].
Mat(rows, cols, at) == [rows |-> rows, cols |-> cols, at |-> at]
\* Matrix(rows, cols): Eigen leaves the coefficients uninitialized.
MatUninit(rows, cols) ==
    Mat(rows, cols, [rc \in (0 .. rows - 1) \X (0 .. cols - 1) |-> Uninit])
\* A Vector: size and the entries at[i].
Vec(size, at) == [size |-> size, at |-> at]

\* A signal V is a [rows x 1] matrix of small integers, kept as the
\* sequence of its column 0; V(i, 0) is V[i + 1].
Rows(V) == Len(V)

\* ------------------------------------------------- CyclicGroupCharacters
\* Variant: the table of omega^(j+k).
CharacterTableOfSums(n) == [jk \in (0 .. n - 1) \X (0 .. n - 1) |-> (jk[1] + jk[2]) % n]

\* compute_character_table: characters_(j, k) = omega^(j*k); the entry is
\* kept as the exponent of omega = exp(2 pi i / n), reduced mod n.
compute_character_table(n) == [jk \in (0 .. n - 1) \X (0 .. n - 1) |-> (jk[1] * jk[2]) % n]

\* Variant: a constructor without the n == 0 check.
ConstructUnchecked(n) ==
    [exc |-> "none", n_ |-> n, characters_ |-> compute_character_table(n)]

\* CyclicGroupCharacters(n): std::invalid_argument for n == 0 (InvalidOrder),
\* else the object with n_ and the table characters_.
construct(n) ==
    IF n = 0 THEN [exc |-> "InvalidOrder"]
    ELSE [exc |-> "none", n_ |-> n, characters_ |-> compute_character_table(n)]

\* Variant: only j is range-checked.
CharacterCheckedJ(n, j, k) ==
    IF j >= n THEN [exc |-> "IndexOutOfRange"]
    ELSE [exc |-> "none", e |-> (j * k) % n]

\* character(j, k): the table entry, or IndexOutOfRange.
character(n, j, k) ==
    IF j >= n \/ k >= n THEN [exc |-> "IndexOutOfRange"]
    ELSE [exc |-> "none", e |-> compute_character_table(n)[<<j, k>>]]

\* Variant: the rows are shifted the other way.
RotateForward(V, k) ==
    IF k = 0 THEN V
    ELSE LET rows == Rows(V)
         IN [i \in 1 .. rows |-> V[((i - 1 + k) % rows) + 1]]

\* rotate(V, k): row i of the result is row (i + rows - k % rows) % rows.
rotate(V, k) ==
    IF k = 0 THEN V
    ELSE LET rows == Rows(V)
             kk == k % rows
         IN [i \in 1 .. rows |-> V[((i - 1 + rows - kk) % rows) + 1]]

\* std::conj on a power of omega: the exponent is negated mod n.
ConjExp(n, e) == (n - e) % n

\* Variant: the projection is divided by n whatever rows(V) is.
ProjectDividedByN(n, V, j) ==
    IF j >= n THEN [exc |-> "IndexOutOfRange"]
    ELSE LET m == Min(Rows(V), n)
             term(i, e) == [k \in 0 .. m - 1 |->
                              IF ConjExp(n, character(n, j, k).e) = e
                              THEN rotate(V, k)[i + 1] ELSE 0]
         IN [exc |-> "none",
             rows |-> Rows(V),
             at |-> [i \in 0 .. Rows(V) - 1 |->
                       [k |-> "val", n |-> n, den |-> n,
                        num |-> [e \in 0 .. n - 1 |-> SumFn(term(i, e), 0 .. m - 1)]]]]

\* project_onto_character(V, j): (1/m) SUM_{k<m} conj(chi_j(k)) rotate(V, k)
\* with m = min(rows(V), n); entry (i, 0) as a "val" cell.
project_onto_character(n, V, j) ==
    IF j >= n THEN [exc |-> "IndexOutOfRange"]
    ELSE LET m == Min(Rows(V), n)
             term(i, e) == [k \in 0 .. m - 1 |->
                              IF ConjExp(n, character(n, j, k).e) = e
                              THEN rotate(V, k)[i + 1] ELSE 0]
         IN [exc |-> "none",
             rows |-> Rows(V),
             at |-> [i \in 0 .. Rows(V) - 1 |->
                       [k |-> "val", n |-> n, den |-> m,
                        num |-> [e \in 0 .. n - 1 |-> SumFn(term(i, e), 0 .. m - 1)]]]]

\* decompose_into_characters(V): the projections j = 0 .. min(rows(V), n) - 1.
decompose_into_characters(n, V) ==
    [j \in 0 .. Min(Rows(V), n) - 1 |-> project_onto_character(n, V, j)]

\* reconstruct_from_characters(coefficients, projections) on the group of
\* order n: std::invalid_argument (EmptyInput) for no projections; else
\* SUM_j coefficients(j) * projections[j] over j below both lengths, a
\* matrix of the shape of projections[0].  The coefficients are integers
\* and the projections those of one signal (one common denominator).
reconstruct_from_characters(n, coefficients, projections) ==
    IF DOMAIN projections = {} THEN [exc |-> "EmptyInput"]
    ELSE LET rows == projections[0].rows
             J == Min(Cardinality(DOMAIN projections), Len(coefficients))
         IN [exc |-> "none",
             rows |-> rows,
             at |-> [i \in 0 .. rows - 1 |->
                       [k |-> "val", n |-> n, den |-> projections[0].at[i].den,
                        num |-> [e \in 0 .. n - 1 |->
                                   SumFn([j \in 0 .. J - 1 |->
                                            coefficients[j + 1] * projections[j].at[i].num[e]],
                                         0 .. J - 1)]]]]

\* learn_character_weights(V_samples, targets) on the group of order n:
\* std::invalid_argument (InvalidInput) for empty or length-mismatched
\* input; else the design matrix A [n_samples * d x n] and b are filled,
\* d = rows of the first sample, A(i*d + k, j) = projs[j](k, 0) for every
\* j < n.  beyond: projs[j] was read for a j that decompose_into_characters
\* did not return; oob: that, or an entry was read past a sample or target.
\* coeffs: the n coefficients returned (solved with USE_EIGEN3, zeros
\* without).
learn_character_weights(n, V_samples, targets, eigen) ==
    IF Len(V_samples) = 0 \/ Len(V_samples) # Len(targets)
    THEN [exc |-> "InvalidInput"]
    ELSE
    LET n_samples == Len(V_samples)
        d == Rows(V_samples[1])
        projs(i) == decompose_into_characters(n, V_samples[i + 1])
        cellA(row, j) ==
            LET i == row \div d
                k == row % d
            IN IF j \in DOMAIN projs(i) /\ k < Rows(V_samples[i + 1])
               THEN projs(i)[j].at[k] ELSE Garbage
        cellb(row) ==
            LET i == row \div d
                k == row % d
            IN IF k < Rows(targets[i + 1]) THEN IntCell(targets[i + 1][k + 1]) ELSE Garbage
        beyond == \E i \in 0 .. n_samples - 1, j \in 0 .. n - 1 : j \notin DOMAIN projs(i)
        oob == \/ beyond
               \/ \E i \in 0 .. n_samples - 1 :
                     d > Rows(V_samples[i + 1]) \/ d > Rows(targets[i + 1])
    IN [exc |-> "none",
        A |-> Mat(n_samples * d, n,
                  [rc \in (0 .. n_samples * d - 1) \X (0 .. n - 1) |-> cellA(rc[1], rc[2])]),
        b |-> Vec(n_samples * d, [r \in 0 .. n_samples * d - 1 |-> cellb(r)]),
        beyond |-> beyond,
        oob |-> oob,
        coeffs |-> Vec(n, [j \in 0 .. n - 1 |->
                             IF ~eigen THEN ZeroCell
                             ELSE IF oob THEN Garbage ELSE WCell(j)])]

\* ------------------------------------------------- complex values
\* Exact comparison of the complex numbers the cells stand for.  A sum
\* SUM_e d[e] * omega_n^e of n-th roots of unity is zero exactly when its
\* trace against every power of omega_n is zero; the trace of omega_n^m is
\* the Ramanujan sum c_n(m) = SUM_{d | gcd(m, n)} mu(n / d) * d.
Divides(d, m) == m % d = 0
IsPrime(p) == p >= 2 /\ \A d \in 2 .. p - 1 : ~Divides(d, p)
\* The Moebius function.
Mu(m) ==
    IF \E p \in 2 .. m : IsPrime(p) /\ Divides(p * p, m) THEN 0
    ELSE IF Cardinality({p \in 2 .. m : IsPrime(p) /\ Divides(p, m)}) % 2 = 0 THEN 1
    ELSE 0 - 1
RamanujanSum(n, m) ==
    LET ds == {d \in 1 .. n : Divides(d, n) /\ Divides(d, m)}
    IN SumFn([d \in ds |-> Mu(n \div d) * d], ds)
\* SUM_e d[e] * omega_n^e = 0, for integer coefficients d[0 .. n-1].
IsZeroComb(n, d) ==
    \A t \in 0 .. n - 1 :
        SumFn([e \in 0 .. n - 1 |-> d[e] * RamanujanSum(n, (e + n - t) % n)], 0 .. n - 1) = 0
\* The complex conjugate of a "val" cell.
ConjCell(c) == [c EXCEPT !.num = [e \in 0 .. c.n - 1 |-> c.num[ConjExp(c.n, e)]]]
\* Two "val" cells over the same order stand for the same complex number.
ValEq(a, b) ==
    /\ a.k = "val" /\ b.k = "val" /\ a.n = b.n
    /\ IsZeroComb(a.n, [e \in 0 .. a.n - 1 |-> a.num[e] * b.den - b.num[e] * a.den])

\* ------------------------------------------------- UnifiedSheafLearner
\* PatchConfig (d_model is taken as 1 throughout, as the code assumes).
Config(np, nc) == [n_positions |-> np, n_characters |-> nc]
\* What patch_configs_[name] inserts for an absent key: a value-initialized
\* PatchConfig.
DefaultConfig == Config(0, 0)

\* get_feature_row(V, config, group), group of order n (USE_EIGEN3 build).
\* vec: the feature row; oob: projs[j](p, 0) was read past the rows of V.
get_feature_row(V, config, n) ==
    LET projs == decompose_into_characters(n, V)
        size == Min(Rows(V), n)
        np == config.n_positions
        nc == config.n_characters
        cell(c) == LET p == c \div nc
                       j == c % nc
                   IN IF j < size
                      THEN (IF p < Rows(V) THEN projs[j].at[p] ELSE Garbage)
                      ELSE Uninit
    IN [vec |-> Vec(np * nc, [c \in 0 .. np * nc - 1 |-> cell(c)]),
        oob |-> \E p \in 0 .. np - 1, j \in 0 .. nc - 1 : j < size /\ p >= Rows(V)]

\* Variant: the offset is not advanced.
AdvanceOffsetStuck(current_col_offset, n_weights) == current_col_offset

\* current_col_offset += n_weights
AdvanceOffset(current_col_offset, n_weights) == current_col_offset + n_weights

\* One iteration of the loop of build_local_systems over problem.patches.
\* acc carries the loop's state: the registry patch_configs_, the result
\* under construction, current_col_offset, and how the loop ended so far.
LocalStep(acc, patch, eigen) ==
    IF acc.exc # "none" THEN acc
    ELSE
    LET n_samples == Len(patch.V_samples)
        n_weights == patch.config.n_positions * patch.config.n_characters
        configs == MapPut(acc.configs, patch.name, patch.config)
        rowsF == [i \in 0 .. n_samples - 1 |->
                    get_feature_row(patch.V_samples[i + 1], patch.config,
                                    patch.config.n_positions)]
        A_patch == Mat(n_samples, n_weights,
                       [rc \in (0 .. n_samples - 1) \X (0 .. n_weights - 1) |->
                          rowsF[rc[1]].vec.at[rc[2]]])
        b_patch == Vec(n_samples, [i \in 0 .. n_samples - 1 |-> IntCell(patch.targets[i + 1])])
    IN IF patch.config.n_positions = 0
       THEN [acc EXCEPT !.configs = configs, !.exc = "InvalidOrder"]
       ELSE [configs |-> configs,
             matrices |-> IF eigen THEN Append(acc.matrices, A_patch) ELSE acc.matrices,
             targets |-> IF eigen THEN Append(acc.targets, b_patch) ELSE acc.targets,
             patch_offsets |-> MapPut(acc.patch_offsets, patch.name, acc.off),
             patch_n_weights |-> MapPut(acc.patch_n_weights, patch.name, n_weights),
             off |-> AdvanceOffset(acc.off, n_weights),
             exc |-> "none",
             oob |-> acc.oob \/ (eigen /\ \E i \in 0 .. n_samples - 1 : rowsF[i].oob)]

RECURSIVE LocalLoop(_, _, _, _)
LocalLoop(acc, patches, i, eigen) ==
    IF i > Len(patches) THEN acc
    ELSE LocalLoop(LocalStep(acc, patches[i], eigen), patches, i + 1, eigen)

\* build_local_systems(problem), run with the registry `configs`.
build_local_systems(problem, configs, eigen) ==
    LocalLoop([configs |-> configs, matrices |-> <<>>, targets |-> <<>>,
               patch_offsets |-> EmptyMap, patch_n_weights |-> EmptyMap,
               off |-> 0, exc |-> "none", oob |-> FALSE],
              problem.patches, 1, eigen)

\* a - b on cells; a value computed from indeterminate storage is
\* indeterminate.
SubCell(a, b) ==
    IF IsIndeterminate(a) \/ IsIndeterminate(b) THEN Garbage
    ELSE [k |-> "sub", a |-> a, b |-> b]

\* The sum of the values of a map (the loop over local_info.patch_n_weights).
SumMap(m) == SumFn(m, DOMAIN m)

\* One iteration of the loop of build_gluing_system over problem.gluings
\* (USE_EIGEN3 build); acc.rows collects the rows of A_gluing.
GluingStep(acc, gluing, local_info, total_weights) ==
    IF acc.exc # "none" THEN acc
    ELSE
    LET cfg1 == IF gluing.patch_1 \in DOMAIN acc.configs THEN acc.configs
                ELSE MapPut(acc.configs, gluing.patch_1, DefaultConfig)
        configs == IF gluing.patch_2 \in DOMAIN cfg1 THEN cfg1
                   ELSE MapPut(cfg1, gluing.patch_2, DefaultConfig)
        config1 == configs[gluing.patch_1]
        config2 == configs[gluing.patch_2]
        known == /\ gluing.patch_1 \in DOMAIN local_info.patch_offsets
                 /\ gluing.patch_2 \in DOMAIN local_info.patch_offsets
        offset1 == local_info.patch_offsets[gluing.patch_1]
        offset2 == local_info.patch_offsets[gluing.patch_2]
        \* the rest of the iteration once feature1 (f1) and feature2 (f2)
        \* are computed
        row(f1, f2) ==
            LET after1 == [c \in 0 .. total_weights - 1 |->
                             IF offset1 <= c /\ c < offset1 + f1.vec.size
                             THEN f1.vec.at[c - offset1] ELSE Uninit]
                after2 == [c \in 0 .. total_weights - 1 |->
                             IF offset2 <= c /\ c < offset2 + f2.vec.size
                             THEN SubCell(after1[c], f2.vec.at[c - offset2])
                             ELSE after1[c]]
            IN IF ~known
               THEN [acc EXCEPT !.configs = configs, !.exc = "UnknownPatch",
                                !.oob = acc.oob \/ f1.oob \/ f2.oob]
               ELSE [configs |-> configs,
                     rows |-> Append(acc.rows, after2),
                     exc |-> "none",
                     oob |-> \/ acc.oob \/ f1.oob \/ f2.oob
                             \/ offset1 + f1.vec.size > total_weights
                             \/ offset2 + f2.vec.size > total_weights,
                     wild |-> \/ acc.wild
                              \/ offset1 + f1.vec.size > total_weights
                              \/ offset2 + f2.vec.size > total_weights]
    IN IF config1.n_positions = 0 \/ config2.n_positions = 0
       THEN [acc EXCEPT !.configs = configs, !.exc = "InvalidOrder"]
       ELSE row(get_feature_row(gluing.constraint_data_1, config1, config1.n_positions),
                get_feature_row(gluing.constraint_data_2, config2, config2.n_positions))

RECURSIVE GluingLoop(_, _, _, _, _)
GluingLoop(acc, gluings, i, local_info, total_weights) ==
    IF i > Len(gluings) THEN acc
    ELSE GluingLoop(GluingStep(acc, gluings[i], local_info, total_weights),
                    gluings, i + 1, local_info, total_weights)

\* build_gluing_system(problem, local_info), run with the registry
\* `configs`.  Without USE_EIGEN3 the function body is empty.
build_gluing_system(problem, local_info, configs, eigen) ==
    LET G == Len(problem.gluings)
        total_weights == SumMap(local_info.patch_n_weights)
        \* the result once the loop over problem.gluings has ended as `done`
        result(done) ==
            [configs |-> done.configs, exc |-> done.exc, oob |-> done.oob,
             wild |-> done.wild,
             A_gluing |-> IF done.exc # "none" THEN Mat(0, 0, <<>>)
                          ELSE Mat(G, total_weights,
                                   [rc \in (0 .. G - 1) \X (0 .. total_weights - 1) |->
                                      done.rows[rc[1] + 1][rc[2]]]),
             b_gluing |-> Vec(G, [i \in 0 .. G - 1 |-> ZeroCell])]
    IN IF G = 0 \/ ~eigen
       THEN [configs |-> configs, exc |-> "none", oob |-> FALSE, wild |-> FALSE,
             A_gluing |-> Mat(0, 0, <<>>), b_gluing |-> Vec(0, <<>>)]
       ELSE result(GluingLoop([configs |-> configs, rows |-> <<>>, exc |-> "none",
                               oob |-> FALSE, wild |-> FALSE],
                              problem.gluings, 1, local_info, total_weights))

\* The number of rows above local block i (row_offset when block i is copied).
RECURSIVE RowsBefore(_, _)
RowsBefore(matrices, i) ==
    IF i <= 1 THEN 0 ELSE RowsBefore(matrices, i - 1) + matrices[i - 1].rows

\* total_cols of A_sheaf, as fit computes it.
TotalCols(matrices) == IF Len(matrices) = 0 THEN 0 ELSE matrices[1].cols

\* Step 3 of fit (USE_EIGEN3): A_sheaf and b_sheaf are allocated
\* (uninitialized), each local block is copied to block(row_offset, 0, ..),
\* then the gluing block.  oob: a block did not fit in A_sheaf (Eigen's
\* precondition); wild: storage outside A_sheaf was written.
AssembleGlobal(local_result, gluing_result) ==
    LET matrices == local_result.matrices
        local_rows == RowsBefore(matrices, Len(matrices) + 1)
        total_rows == local_rows + gluing_result.A_gluing.rows
        total_cols == TotalCols(matrices)
        blockOf(r) == CHOOSE i \in 1 .. Len(matrices) :
                          /\ RowsBefore(matrices, i) <= r
                          /\ r < RowsBefore(matrices, i) + matrices[i].rows
        entry(r, c) ==
            IF r < local_rows
            THEN LET i == blockOf(r)
                 IN IF c < matrices[i].cols
                    THEN matrices[i].at[<<r - RowsBefore(matrices, i), c>>]
                    ELSE Uninit
            ELSE IF c < gluing_result.A_gluing.cols
                 THEN gluing_result.A_gluing.at[<<r - local_rows, c>>]
                 ELSE Uninit
        target(r) ==
            IF r < local_rows
            THEN LET i == blockOf(r)
                 IN local_result.targets[i].at[r - RowsBefore(matrices, i)]
            ELSE gluing_result.b_gluing.at[r - local_rows]
        tooWide == {i \in 1 .. Len(matrices) : matrices[i].cols > total_cols}
        gluingTooWide == /\ gluing_result.A_gluing.rows > 0
                         /\ gluing_result.A_gluing.cols > total_cols
    IN [local_rows |-> local_rows,
        A_sheaf |-> Mat(total_rows, total_cols,
                        [rc \in (0 .. total_rows - 1) \X (0 .. total_cols - 1) |->
                           entry(rc[1], rc[2])]),
        b_sheaf |-> Vec(total_rows, [r \in 0 .. total_rows - 1 |-> target(r)]),
        oob |-> tooWide # {} \/ gluingTooWide,
        wild |-> (\E i \in tooWide : matrices[i].rows > 0) \/ gluingTooWide]

\* Whether a matrix / vector holds an entry whose value is indeterminate.
MatIndeterminate(M) == \E rc \in DOMAIN M.at : IsIndeterminate(M.at[rc])
VecIndeterminate(v) == \E i \in DOMAIN v.at : IsIndeterminate(v.at[i])

\* unpack_solution(w_solution, local_info, residual_error), reading the
\* registry `configs`.  oob: w_solution.segment(offset, n_weights) does not
\* lie inside w_solution.
unpack_solution(w_solution, local_info, residual_error, configs) ==
    LET names == DOMAIN local_info.patch_offsets
        flat(name, x) ==
            LET i == local_info.patch_offsets[name] + x
            IN IF i < w_solution.size THEN w_solution.at[i] ELSE Garbage
        weights(name) ==
            LET config == configs[name]
            IN Mat(config.n_positions, config.n_characters,
                   [pj \in (0 .. config.n_positions - 1) \X (0 .. config.n_characters - 1) |->
                      flat(name, pj[1] * config.n_characters + pj[2])])
    IN [sol |-> [weights |-> [name \in names |-> weights(name)],
                 residual_error |-> residual_error,
                 converged |-> RLess(residual_error, EPSILON)],
        oob |-> \E name \in names :
                   local_info.patch_offsets[name] + local_info.patch_n_weights[name]
                     > w_solution.size]

\* The snap of fit: if (residual_error < EPSILON) residual_error = 0.0.
SnapResidual(r) == IF RLess(r, EPSILON) THEN RZero ELSE r

\* ------------------------------------------------------------- fit
\* A solver object: the members fitted_, solution_, patch_configs_.
Solver(fitted, solution, configs) ==
    [fitted |-> fitted, solution |-> solution, configs |-> configs]

\* UnifiedSheafLearner(verbose): fitted_(false), solution_{} (value
\* initialized: no weights, residual_error 0.0, converged false), and an
\* empty registry.
NoSolution == [weights |-> EmptyMap, residual_error |-> RZero, converged |-> FALSE]
NewSolver == Solver(FALSE, NoSolution, EmptyMap)
NoLocals == [built |-> FALSE]

\* What squaredNorm() can return when the system holds indeterminate
\* entries: any double that is a squared norm, or NaN.
RawResiduals == {RZero, Real(5, 0 - 13), EPSILON, ROne}
IndeterminateResiduals == RawResiduals \cup {RNaN}

\* How a call ended: kind "return" (ret is the value returned), "throw"
\* (exc names the exception) or "abort" (a violated precondition of the
\* matrix library stopped the process); after is the solver afterwards.
Outcome(kind, exc, ret, after, locals) ==
    [kind |-> kind, exc |-> exc, ret |-> ret, after |-> after, locals |-> locals]

\* The placeholder body of fit when USE_EIGEN3 is not defined.
FitStub(S, configs) ==
    Outcome("return", "none",
            [weights |-> EmptyMap, residual_error |-> ROne, converged |-> FALSE],
            Solver(FALSE, S.solution, configs), NoLocals)

\* Steps 3-4 and the end of fit (USE_EIGEN3): assemble, solve, unpack,
\* store.  r is the value residuals.squaredNorm() has for the problem's data.
FitSolve(S, local_result, gluing_result, r) ==
    \* solved(asm): the solve and the end of fit once the system is assembled
    LET solved(asm) ==
            LET indet == \/ gluing_result.wild \/ asm.wild
                         \/ MatIndeterminate(asm.A_sheaf) \/ VecIndeterminate(asm.b_sheaf)
                raws == IF indet THEN IndeterminateResiduals
                        ELSE IF asm.A_sheaf.rows = 0 THEN {RZero} ELSE {r}
                w_solution == Vec(asm.A_sheaf.cols,
                                  [i \in 0 .. asm.A_sheaf.cols - 1 |->
                                     IF indet THEN Garbage ELSE WCell(i)])
                un(raw) == unpack_solution(w_solution, local_result, SnapResidual(raw),
                                           gluing_result.configs)
                locals == [built |-> TRUE,
                           patch_offsets |-> local_result.patch_offsets,
                           patch_n_weights |-> local_result.patch_n_weights,
                           matrices |-> local_result.matrices,
                           A_gluing |-> gluing_result.A_gluing,
                           b_gluing |-> gluing_result.b_gluing,
                           local_rows |-> asm.local_rows,
                           A_sheaf |-> asm.A_sheaf,
                           b_sheaf |-> asm.b_sheaf,
                           block_oob |-> asm.oob,
                           w_solution |-> w_solution]
                oob == \/ local_result.oob \/ gluing_result.oob \/ asm.oob
                       \/ un(RZero).oob
            IN {Outcome("return", "none", un(raw).sol,
                        Solver(TRUE, un(raw).sol, gluing_result.configs), locals) : raw \in raws}
               \cup (IF oob THEN {Outcome("abort", "none", NoSolution, S, locals)} ELSE {})
    IN solved(AssembleGlobal(local_result, gluing_result))

\* fit(problem) on solver S: the set of ways the call can end.  An
\* exception leaves fit at once; everything written before stays written.
fit(S, problem, r, eigen) ==
    LET thrown(exc, configs, oob) ==
            {Outcome("throw", exc, NoSolution, [S EXCEPT !.configs = configs], NoLocals)}
            \cup (IF oob THEN {Outcome("abort", "none", NoSolution, S, NoLocals)} ELSE {})
        \* Steps 3-4, once both build steps have returned
        step3(local_result, gluing_result) ==
            IF gluing_result.exc # "none"
            THEN thrown(gluing_result.exc, gluing_result.configs,
                        local_result.oob \/ gluing_result.oob)
            ELSE IF eigen
            THEN FitSolve(S, local_result, gluing_result, r)
            ELSE {FitStub(S, gluing_result.configs)}
        \* Step 2, once build_local_systems has ended as local_result
        step2(local_result) ==
            IF local_result.exc # "none"
            THEN thrown(local_result.exc, local_result.configs, local_result.oob)
            ELSE step3(local_result,
                       build_gluing_system(problem, local_result,
                                           local_result.configs, eigen))
    IN step2(build_local_systems(problem, S.configs, eigen))

\* ------------------------------------------------------------- predict
\* The USE_EIGEN3 body of predict once config and weights were looked up.
\* The value returned is feature_row.dot(weights_flat), kept as the two
\* vectors (Eigen's dot conjugates its left operand).  oob: V is shorter
\* than config.n_positions, or weights is smaller than the config says.
PredictValue(S, config, weights, V) ==
    LET f == get_feature_row(V, config, config.n_positions)
        n == config.n_positions * config.n_characters
        inside(p, j) == p < weights.rows /\ j < weights.cols
        weights_flat ==
            Vec(n, [c \in 0 .. n - 1 |->
                      LET p == c \div config.n_characters
                          j == c % config.n_characters
                      IN IF inside(p, j) THEN weights.at[<<p, j>>] ELSE Garbage])
        oob == \/ f.oob
               \/ \E p \in 0 .. config.n_positions - 1, j \in 0 .. config.n_characters - 1 :
                      ~inside(p, j)
    IN IF config.n_positions = 0
       THEN {Outcome("throw", "InvalidOrder", NoSolution, S, NoLocals)}
       ELSE {Outcome("return", "none",
                     [k |-> "dot", conj_a |-> f.vec, b |-> weights_flat], S, NoLocals)}
            \cup (IF oob THEN {Outcome("abort", "none", NoSolution, S, NoLocals)} ELSE {})

\* Variant of PredictLookup that checks the registry only: the weights are
\* looked up without a check.
PredictLookupRegistryOnly(S, patch_name, V) ==
    IF patch_name \notin DOMAIN S.configs
    THEN {Outcome("throw", "UnknownPatch", NoSolution, S, NoLocals)}
    ELSE PredictValue(S, S.configs[patch_name],
                      IF patch_name \in DOMAIN S.solution.weights
                      THEN S.solution.weights[patch_name] ELSE Mat(0, 0, <<>>), V)

\* patch_configs_.at(patch_name) and solution_.weights.at(patch_name):
\* std::out_of_range when either map lacks the key.
PredictLookup(S, patch_name, V) ==
    IF patch_name \notin DOMAIN S.configs \/ patch_name \notin DOMAIN S.solution.weights
    THEN {Outcome("throw", "UnknownPatch", NoSolution, S, NoLocals)}
    ELSE PredictValue(S, S.configs[patch_name], S.solution.weights[patch_name], V)

\* Variant of predict without the fitted_ check.
PredictUnguarded(S, patch_name, V, eigen) ==
    IF ~eigen THEN {Outcome("return", "none", ZeroCell, S, NoLocals)}
    ELSE PredictLookup(S, patch_name, V)

\* predict(patch_name, V) on solver S: the set of ways the call can end.
predict(S, patch_name, V, eigen) ==
    IF ~S.fitted THEN {Outcome("throw", "NotFitted", NoSolution, S, NoLocals)}
    ELSE IF ~eigen THEN {Outcome("return", "none", ZeroCell, S, NoLocals)}
    ELSE PredictLookup(S, patch_name, V)

\* ------------------------------------------------------------- inputs
PatchNames == {"a", "b"}
\* The signal of L rows used as data: V(i, 0) = i + 1.
Signal(L) == [i \in 1 .. L |-> i]
Signals == {Signal(L) : L \in 1 .. MaxRows}
\* targets[i](0, 0) of the i-th sample of a patch.
Targets(n) == [i \in 1 .. n |-> 10 + i]
SeqsUpTo(S, n) == UNION {[1 .. k -> S] : k \in 0 .. n}

Patch(name, config, V_samples) ==
    [name |-> name, config |-> config, V_samples |-> V_samples,
     targets |-> Targets(Len(V_samples))]
Gluing(p1, p2, d1, d2) ==
    [patch_1 |-> p1, patch_2 |-> p2, constraint_data_1 |-> d1, constraint_data_2 |-> d2]
Gluings == {Gluing(p1, p2, Signal(MaxRows), Signal(MaxRows)) : p1 \in PatchNames, p2 \in PatchNames}
Problem(patches, gluings) == [patches |-> patches, gluings |-> gluings]

\* The problems handed to a solver over its life: every patch has one
\* sample and n_characters = 1.  LifeResiduals: the values the backend
\* computes for them (one below EPSILON, one above).
LifeResiduals == {Real(5, 0 - 13), ROne}
LifePatches ==
    {Patch(name, Config(np, 1), <<Signal(MaxRows)>>) :
        name \in PatchNames, np \in 0 .. MaxPositions}
LifeProblems ==
    {Problem(ps, gs) : ps \in SeqsUpTo(LifePatches, MaxLifePatches),
                       gs \in SeqsUpTo(Gluings, MaxGluings)}

PatchNamesOf(problem) == {problem.patches[i].name : i \in 1 .. Len(problem.patches)}

\* The problems used to examine one fit call in detail: any config, zero
\* to MaxSamples samples per patch, samples of any length.
FitPatches ==
    {Patch(name, Config(np, nc), vs) :
        name \in PatchNames, np \in 0 .. MaxPositions, nc \in 0 .. MaxCharacters,
        vs \in SeqsUpTo(Signals, MaxSamples)}
FitProblems ==
    {Problem(ps, gs) : ps \in SeqsUpTo(FitPatches, MaxPatches),
                       gs \in SeqsUpTo(Gluings, MaxGluings)}

\* ------------------------------------------------------------- state
VARIABLES
    USE_EIGEN3,       \* the build: TRUE with the Eigen backend, FALSE without
    fitted_,          \* UnifiedSheafLearner::fitted_
    solution_,        \* UnifiedSheafLearner::solution_
    patch_configs_,   \* UnifiedSheafLearner::patch_configs_
    crashed,          \* the process was aborted inside a call
    call,             \* the last call made on the solver and how it ended
    locals,           \* the local objects of the fit call (one-call specification)
    hist,             \* what has happened on this solver so far
    input,            \* the problem to fit (one-call specification)
    group,            \* a CyclicGroupCharacters object (group specification)
    sheaf_problem,    \* kernel: the SheafProblem of the sheaf command
    uart,             \* kernel: what the sheaf command wrote to the UART
    cmd_idx,          \* kernel: kmain's cmd_idx
    cmd_buffer,       \* kernel: kmain's cmd_buffer[64]
    console,          \* kernel: what the console loop has done so far
    boot              \* the bootloader: where UefiMain is and what it holds

vars == <<USE_EIGEN3, fitted_, solution_, patch_configs_, crashed, call, locals, hist,
          input, group, sheaf_problem, uart, cmd_idx, cmd_buffer, console, boot>>

NoInput == [patches |-> <<>>, gluings |-> <<>>, none |-> TRUE]
NoCall == [op |-> "none", kind |-> "none", exc |-> "none"]
NoHist == [fitReturned |-> FALSE, fitThrew |-> FALSE, okNames |-> {}]
\* No CyclicGroupCharacters object exists.
NoGroup == [constructed |-> FALSE]
\* The kernel and the bootloader are not running.
NoProblem == [n_patches |-> 0, patches |-> <<>>, solved |-> FALSE,
              residual |-> [root_of |-> [num |-> 0, den |-> 1]], converged |-> FALSE]
NoUart == [printed |-> FALSE]
NoConsole == [running |-> FALSE, pc |-> "off"]
NoBoot == [pc |-> "off"]

Cur == Solver(fitted_, solution_, patch_configs_)

\* The kernel's sheaf command and console loop are not running.
KernelOff ==
    /\ sheaf_problem = NoProblem
    /\ uart = NoUart
    /\ cmd_idx = 0
    /\ cmd_buffer = <<>>
    /\ console = NoConsole

\* The bootloader is not running.
BootOff == boot = NoBoot

\* No UnifiedSheafLearner call is in progress (kernel and bootloader
\* specifications).
LearnerOff ==
    /\ USE_EIGEN3 = FALSE
    /\ fitted_ = NewSolver.fitted
    /\ solution_ = NewSolver.solution
    /\ patch_configs_ = NewSolver.configs
    /\ crashed = FALSE
    /\ call = NoCall
    /\ locals = NoLocals
    /\ hist = NoHist
    /\ group = NoGroup
    /\ input = NoInput

LearnerUnchanged ==
    UNCHANGED <<USE_EIGEN3, fitted_, solution_, patch_configs_, crashed, call, locals,
                hist, input, group>>

InitSolver ==
    /\ fitted_ = NewSolver.fitted
    /\ solution_ = NewSolver.solution
    /\ patch_configs_ = NewSolver.configs
    /\ crashed = FALSE
    /\ call = NoCall
    /\ locals = NoLocals
    /\ hist = NoHist
    /\ group = NoGroup
    /\ KernelOff
    /\ BootOff

Init ==
    /\ USE_EIGEN3 \in BOOLEAN
    /\ InitSolver
    /\ input = NoInput

\* The solver's members and the run's status after a call ended as `out`.
Ended(out) ==
    /\ fitted_' = out.after.fitted
    /\ solution_' = out.after.solution
    /\ patch_configs_' = out.after.configs
    /\ crashed' = (out.kind = "abort")

\* What an observer of a call sees: how it ended and what it returned.
Seen(out) == [kind |-> out.kind, exc |-> out.exc, ret |-> out.ret]

\* What a caller can read from the matrix predict returned.  A feature row
\* with entries read from uninitialized or out-of-range storage gives a
\* product that differs from run to run: two values stand for what such a
\* read can produce.
IndeterminateValues == {"v1", "v2"}
Returned(out) ==
    IF out.kind = "return" /\ out.ret.k = "dot" /\ VecIndeterminate(out.ret.conj_a)
    THEN {[k |-> "indeterminate", v |-> v] : v \in IndeterminateValues}
    ELSE {out.ret}

\* Some gluing of the problem names a patch the problem does not have.
HasDanglingGluing(problem) ==
    \E i \in 1 .. Len(problem.gluings) :
        \/ problem.gluings[i].patch_1 \notin PatchNamesOf(problem)
        \/ problem.gluings[i].patch_2 \notin PatchNamesOf(problem)

\* The record of a fit call: how it ended, and of its argument the patch
\* names, whether a gluing dangles, and whether a freshly constructed
\* solver can end the same call the same way (same backend value r).
FitCall(problem, r, out) ==
    /\ Ended(out)
    /\ call' = [op |-> "fit", kind |-> out.kind, exc |-> out.exc, ret |-> out.ret,
                names |-> PatchNamesOf(problem),
                n_patches |-> Len(problem.patches),
                n_gluings |-> Len(problem.gluings),
                dangling |-> HasDanglingGluing(problem),
                positive |-> \A i \in 1 .. Len(problem.patches) :
                                problem.patches[i].config.n_positions >= 1,
                asFresh |-> Seen(out) \in {Seen(o) : o \in fit(NewSolver, problem, r, USE_EIGEN3)}]
    /\ hist' = [fitReturned |-> hist.fitReturned \/ out.kind = "return",
                fitThrew |-> hist.fitThrew \/ out.kind = "throw",
                okNames |-> IF out.kind = "return" THEN PatchNamesOf(problem)
                            ELSE hist.okNames]

\* solver.fit(problem)
Fit ==
    /\ ~crashed
    /\ \E problem \in LifeProblems, r \in LifeResiduals :
         \E out \in fit(Cur, problem, r, USE_EIGEN3) : FitCall(problem, r, out)
    /\ UNCHANGED <<USE_EIGEN3, locals, input, group, sheaf_problem, uart, cmd_idx, cmd_buffer, console, boot>>

\* solver.predict(patch_name, V)
Predict ==
    /\ ~crashed
    /\ \E patch_name \in PatchNames, V \in Signals :
         \E out \in predict(Cur, patch_name, V, USE_EIGEN3) :
            \E value \in Returned(out) :
               /\ Ended(out)
               /\ call' = [op |-> "predict", kind |-> out.kind, exc |-> out.exc,
                           ret |-> out.ret, value |-> value,
                           patch_name |-> patch_name, V |-> V]
    /\ UNCHANGED <<USE_EIGEN3, locals, hist, input, group, sheaf_problem, uart, cmd_idx, cmd_buffer, console, boot>>

Next == Fit \/ Predict

Spec == Init /\ [][Next]_vars

\* One fit call on a freshly constructed solver of the Eigen build, for
\* every problem of FitProblems.
InitFit ==
    /\ USE_EIGEN3 = TRUE
    /\ InitSolver
    /\ input \in FitProblems

FitInput ==
    /\ call.op = "none"
    /\ \E r \in RawResiduals :
         \E out \in fit(Cur, input, r, USE_EIGEN3) :
            FitCall(input, r, out) /\ locals' = out.locals
    /\ UNCHANGED <<USE_EIGEN3, input, group, sheaf_problem, uart, cmd_idx, cmd_buffer, console, boot>>

NextFit == FitInput

SpecFit == InitFit /\ [][NextFit]_vars

\* One fit call and then predict calls on a freshly constructed solver of
\* the Eigen build: the problem has one patch "a" with one sample of
\* n_positions rows; predict is called on "a" with signals of any length.
SignalsOfLen(L) == [1 .. L -> 1 .. 2]
AnySignals == UNION {SignalsOfLen(L) : L \in 1 .. MaxOrder}
PredictProblems ==
    UNION {{Problem(<<Patch("a", Config(np, nc), <<V>>)>>, <<>>) :
               nc \in 1 .. MaxCharacters, V \in SignalsOfLen(np)} :
           np \in 1 .. MaxOrder}

InitPredict ==
    /\ USE_EIGEN3 = TRUE
    /\ InitSolver
    /\ input \in PredictProblems

\* solver.predict("a", V) after the fit call.
PredictInput ==
    /\ ~crashed
    /\ call.op \in {"fit", "predict"}
    /\ \E V \in AnySignals :
         \E out \in predict(Cur, input.patches[1].name, V, USE_EIGEN3) :
            \E value \in Returned(out) :
               /\ Ended(out)
               /\ call' = [op |-> "predict", kind |-> out.kind, exc |-> out.exc,
                           ret |-> out.ret, value |-> value,
                           patch_name |-> input.patches[1].name, V |-> V]
    /\ UNCHANGED <<USE_EIGEN3, locals, hist, input, group, sheaf_problem, uart, cmd_idx, cmd_buffer, console, boot>>

NextPredict == FitInput \/ PredictInput

SpecPredict == InitPredict /\ [][NextPredict]_vars

\* A CyclicGroupCharacters object and the calls made on it, in either
\* build.  Indices run one past the largest order, shifts past the longest
\* signal.
GroupIndices == 0 .. MaxOrder + 1
GroupShifts == 0 .. MaxOrder + 1
\* The signals handed to the group: per length the ramp 1, 2, .., L and
\* the unit impulse 1, 0, .., 0.
Impulse(L) == [i \in 1 .. L |-> IF i = 1 THEN 1 ELSE 0]
GroupSignals == {Signal(L) : L \in 1 .. MaxOrder} \cup {Impulse(L) : L \in 1 .. MaxOrder}
GroupTargets == {Signal(L) : L \in 1 .. MaxOrder}

InitGroup ==
    /\ USE_EIGEN3 \in BOOLEAN
    /\ InitSolver
    /\ input = NoInput

GroupUnchanged ==
    UNCHANGED <<USE_EIGEN3, fitted_, solution_, patch_configs_, locals, hist, input,
                sheaf_problem, uart, cmd_idx, cmd_buffer, console, boot>>

\* CyclicGroupCharacters group(n)
Construct ==
    /\ ~group.constructed
    /\ \E n \in 0 .. MaxOrder :
         LET G == construct(n)
         IN /\ group' = IF G.exc = "none"
                        THEN [constructed |-> TRUE, n_ |-> G.n_, characters_ |-> G.characters_]
                        ELSE NoGroup
            /\ call' = [op |-> "construct", n |-> n, exc |-> G.exc,
                        kind |-> IF G.exc = "none" THEN "return" ELSE "throw"]
    /\ UNCHANGED crashed
    /\ GroupUnchanged

\* group.character(j, k)
Character ==
    /\ group.constructed /\ ~crashed
    /\ \E j \in GroupIndices, k \in GroupIndices :
         LET c == character(group.n_, j, k)
         IN call' = [op |-> "character", j |-> j, k |-> k, exc |-> c.exc,
                     kind |-> IF c.exc = "none" THEN "return" ELSE "throw",
                     ret |-> IF c.exc = "none" THEN c.e ELSE 0]
    /\ UNCHANGED <<group, crashed>>
    /\ GroupUnchanged

\* group.rotate(V, k)
Rotate ==
    /\ group.constructed /\ ~crashed
    /\ \E V \in GroupSignals, k \in GroupShifts :
         call' = [op |-> "rotate", V |-> V, k |-> k, exc |-> "none", kind |-> "return",
                  ret |-> rotate(V, k)]
    /\ UNCHANGED <<group, crashed>>
    /\ GroupUnchanged

\* group.project_onto_character(V, j)
Project ==
    /\ group.constructed /\ ~crashed
    /\ \E V \in GroupSignals, j \in GroupIndices :
         LET P == project_onto_character(group.n_, V, j)
         IN call' = [op |-> "project", V |-> V, j |-> j, exc |-> P.exc,
                     kind |-> IF P.exc = "none" THEN "return" ELSE "throw",
                     ret |-> P]
    /\ UNCHANGED <<group, crashed>>
    /\ GroupUnchanged

\* group.decompose_into_characters(V)
Decompose ==
    /\ group.constructed /\ ~crashed
    /\ \E V \in GroupSignals :
         call' = [op |-> "decompose", V |-> V, exc |-> "none", kind |-> "return",
                  ret |-> decompose_into_characters(group.n_, V)]
    /\ UNCHANGED <<group, crashed>>
    /\ GroupUnchanged

\* group.reconstruct_from_characters(ones(c), projections), the projections
\* being none or those decompose_into_characters returned for a signal V.
Reconstruct ==
    /\ group.constructed /\ ~crashed
    /\ \E V \in GroupSignals, c \in GroupIndices : \E none \in {V = Signal(1), FALSE} :
         LET projections == IF none THEN EmptyMap
                            ELSE decompose_into_characters(group.n_, V)
             coefficients == [i \in 1 .. c |-> 1]
             R == reconstruct_from_characters(group.n_, coefficients, projections)
         IN call' = [op |-> "reconstruct", V |-> V, coefficients |-> coefficients,
                     n_projections |-> Cardinality(DOMAIN projections),
                     exc |-> R.exc,
                     kind |-> IF R.exc = "none" THEN "return" ELSE "throw",
                     ret |-> R]
    /\ UNCHANGED <<group, crashed>>
    /\ GroupUnchanged

\* group.learn_character_weights(V_samples, targets); a read outside an
\* object either goes unnoticed or stops the process.
Learn ==
    /\ group.constructed /\ ~crashed
    /\ \E V_samples \in SeqsUpTo(GroupSignals, MaxSamples),
          targets \in SeqsUpTo(GroupTargets, MaxSamples) :
         LET R == learn_character_weights(group.n_, V_samples, targets, USE_EIGEN3)
         IN \E kind \in IF R.exc # "none" THEN {"throw"}
                         ELSE IF R.oob THEN {"return", "abort"} ELSE {"return"} :
              /\ call' = [op |-> "learn", V_samples |-> V_samples, targets |-> targets,
                          exc |-> R.exc, kind |-> kind, ret |-> R]
              /\ crashed' = (kind = "abort")
    /\ UNCHANGED group
    /\ GroupUnchanged

NextGroup ==
    Construct \/ Character \/ Rotate \/ Project \/ Decompose \/ Reconstruct \/ Learn

SpecGroup == InitGroup /\ [][NextGroup]_vars


\* ------------------------------------------------------ kernel: sheaf.c
\* sheaf.h: #define MAX_PATCHES 4, #define MAX_SAMPLES_PER_PATCH 8
MAX_PATCHES == 4
MAX_SAMPLES_PER_PATCH == 8

\* A real_t that is the rational num / den, den > 0, in lowest terms.
RECURSIVE GCD(_, _)
GCD(a, b) == IF b = 0 THEN a ELSE GCD(b, a % b)
Abs(a) == IF a < 0 THEN 0 - a ELSE a
Rat(num, den) ==
    LET g == GCD(Abs(num), den) IN [num |-> num \div g, den |-> den \div g]
RatZero == Rat(0, 1)
RatAdd(x, y) == Rat(x.num * y.den + y.num * x.den, x.den * y.den)

\* A real_t that is the non-negative square root of the rational x.
SqrtOf(x) == [root_of |-> x]

\* sqrt_approx: 0 for x <= 0, otherwise ten Newton steps from x / 2.  For
\* the sums of this model (0, or between 1/2 and 30) the ten steps have
\* converged to the double nearest the square root.
sqrt_approx(x) == IF x.num <= 0 THEN SqrtOf(RatZero) ELSE SqrtOf(x)

\* The largest m with m * m <= n.
RECURSIVE ISqrtIn(_, _, _)
ISqrtIn(n, lo, hi) ==
    IF hi - lo <= 1 THEN lo
    ELSE LET mid == (lo + hi) \div 2
         IN IF mid * mid <= n THEN ISqrtIn(n, mid, hi) ELSE ISqrtIn(n, lo, mid)
ISqrt(n) == ISqrtIn(n, 0, Min(n, 46339) + 1)

\* residual < 1e-6: the square root of num / den is below 10^-6 exactly
\* when num / den is below 10^-12, which for den < 10^12 means num = 0.
BelowConvergence(r) == r.root_of.num <= 0

\* (int)(residual * 1000): truncation of a non-negative double.
TimesThousandToInt(r) == ISqrt((1000000 * r.root_of.num) \div r.root_of.den)

\* A Patch of sheaf.h: the first n_samples entries of samples[] and
\* targets[], and the config.
KernelPatch(name, samples, targets, n_positions, n_chars) ==
    [name |-> name, n_samples |-> Len(targets), samples |-> samples,
     targets |-> targets,
     config |-> [n_positions |-> n_positions, n_chars |-> n_chars]]

\* A SheafProblem whose residual and converged fields were not written yet.
KernelProblem(patches) ==
    [n_patches |-> Len(patches), patches |-> patches, solved |-> FALSE,
     residual |-> SqrtOf(RatZero), converged |-> FALSE]

RECURSIVE SumSeq(_)
SumSeq(s) == IF s = <<>> THEN 0 ELSE Head(s) + SumSeq(Tail(s))

\* Lines 60-72 of sheaf_solve for one patch: the sum over the samples of
\* (targets[i] - mean_target)^2 with mean_target = sum / n_samples, that
\* is of ((n * targets[i] - sum) / n)^2.  With no samples the mean is
\* 0.0 / 0 (NaN) and the second loop adds nothing to 0.0.
PatchError(patch) ==
    LET n == patch.n_samples
        sum == SumSeq(patch.targets)
        diffs == [i \in 1 .. n |-> (n * patch.targets[i] - sum) * (n * patch.targets[i] - sum)]
    IN IF n = 0 THEN RatZero ELSE Rat(SumSeq(diffs), n * n)

RECURSIVE TotalError(_)
TotalError(patches) ==
    IF patches = <<>> THEN RatZero
    ELSE RatAdd(PatchError(Head(patches)), TotalError(Tail(patches)))

\* sheaf_solve: writes residual and converged, reads targets and
\* n_samples only, and returns 0 on every path.
sheaf_solve(problem) ==
    LET residual == sqrt_approx(TotalError(problem.patches))
    IN [problem EXCEPT !.solved = TRUE,
                       !.residual = residual,
                       !.converged = BelowConvergence(residual)]
sheaf_solve_result == 0

\* sheaf_demo_register_allocation: two patches, no gluing constraint.
sheaf_demo_register_allocation(problem) ==
    [problem EXCEPT
        !.n_patches = 2,
        !.patches = << KernelPatch("block_a", <<1, 2, 3>>, <<1, 2, 3>>, 3, 2),
                       KernelPatch("block_b", <<2, 4>>, <<2, 1>>, 2, 2) >>]

\* ------------------------------------------------------ kernel: kmain.c
\* The decimal digits of temp, most significant first: the loop
\* `while (temp > 0) { buf[i++] = '0' + temp % 10; temp /= 10; }` and the
\* printing of buf backwards.  Nothing is printed for temp <= 0.
DigitChar(d) == <<"0", "1", "2", "3", "4", "5", "6", "7", "8", "9">>[d + 1]
RECURSIVE DecimalDigits(_)
DecimalDigits(temp) ==
    IF temp <= 0 THEN <<>>
    ELSE Append(DecimalDigits(temp \div 10), DigitChar(temp % 10))

\* process_command, the "sheaf" branch after the solver call (lines
\* 123-164): which lines go to the UART, and the characters printed after
\* "  Residual (obstruction): ".
SheafReport(result, problem) ==
    LET residual_int == TimesThousandToInt(problem.residual)
    IN IF result = 0
       THEN [printed |-> TRUE,
             solver_converged |-> TRUE,
             residual_text |-> IF residual_int = 0
                               THEN <<"0", ".", "0", "0", "0">>
                               ELSE DecimalDigits(residual_int),
             optimal |-> problem.converged,
             warn |-> ~problem.converged,
             err |-> FALSE]
       ELSE [printed |-> TRUE, solver_converged |-> FALSE, residual_text |-> <<>>,
             optimal |-> FALSE, warn |-> FALSE, err |-> TRUE]

KernelTargets == UNION {[1 .. n -> 1 .. MaxTarget] : n \in 0 .. Min(MaxKernelSamples, MAX_SAMPLES_PER_PATCH)}
KernelPatches ==
    {KernelPatch("p", [i \in 1 .. Len(t) |-> 0], t, Len(t), 1) : t \in KernelTargets}
KernelProblems ==
    {KernelProblem(ps) :
        ps \in UNION {[1 .. n -> KernelPatches] : n \in 0 .. Min(MaxKernelPatches, MAX_PATCHES)}}

SheafUnchanged == UNCHANGED <<cmd_idx, cmd_buffer, console, boot>>

\* The sheaf command on a SheafProblem the caller filled in.
InitSheaf ==
    /\ LearnerOff
    /\ BootOff
    /\ sheaf_problem \in KernelProblems
    /\ uart = NoUart
    /\ cmd_idx = 0
    /\ cmd_buffer = <<>>
    /\ console = NoConsole

\* process_command("sheaf"): the demo problem, the solver, the report.
SheafCommand ==
    /\ LET solved == sheaf_solve(sheaf_demo_register_allocation(sheaf_problem))
       IN /\ sheaf_problem' = solved
          /\ uart' = SheafReport(sheaf_solve_result, solved)
    /\ SheafUnchanged
    /\ LearnerUnchanged

\* sheaf_solve(&problem) on the problem as it is.
SheafSolve ==
    /\ ~sheaf_problem.solved
    /\ sheaf_problem' = sheaf_solve(sheaf_problem)
    /\ uart' = uart
    /\ SheafUnchanged
    /\ LearnerUnchanged

\* The report of lines 123-164 on a solved problem.
SheafPrint ==
    /\ sheaf_problem.solved
    /\ uart' = SheafReport(sheaf_solve_result, sheaf_problem)
    /\ sheaf_problem' = sheaf_problem
    /\ SheafUnchanged
    /\ LearnerUnchanged

NextSheaf == SheafCommand \/ SheafSolve \/ SheafPrint

SpecSheaf == InitSheaf /\ [][NextSheaf]_vars


\* ------------------------------------------- kernel: kmain console loop
\* char cmd_buffer[64]
CMD_BUFFER_SIZE == 64
\* The guard `cmd_idx < 63` of the printable branch.
CMD_IDX_LIMIT == 63

\* A cell of cmd_buffer that was not written since the prompt: it holds
\* whatever the stack or an earlier line left there.
Stale == 0 - 1
StaleBuffer == [i \in 0 .. CMD_BUFFER_SIZE - 1 |-> Stale]

\* cmd_buffer[idx] = c.  An index outside the array is a write to the
\* stack behind it.
BufferWrite(buf, idx, c) ==
    IF idx \in DOMAIN buf
    THEN [buf |-> [buf EXCEPT ![idx] = c], oob |-> FALSE]
    ELSE [buf |-> buf, oob |-> TRUE]

\* One pass of the inner loop of kmain (lines 211-227) for the character
\* c that uart_getc returned, with the printable branch guarded by
\* cmd_idx < limit.
ReadCharGuarded(c, idx, buf, limit) ==
    IF c = 13 \/ c = 10
    THEN [cmd_idx |-> idx, write |-> idx, stored |-> 0, echo |-> "newline",
          done |-> TRUE, w |-> BufferWrite(buf, idx, 0)]
    ELSE IF c = 127 \/ c = 8
    THEN IF idx > 0
         THEN [cmd_idx |-> idx - 1, write |-> Stale, stored |-> Stale, echo |-> "erase",
               done |-> FALSE, w |-> [buf |-> buf, oob |-> FALSE]]
         ELSE [cmd_idx |-> idx, write |-> Stale, stored |-> Stale, echo |-> "none",
               done |-> FALSE, w |-> [buf |-> buf, oob |-> FALSE]]
    ELSE IF c >= 32 /\ c < 127 /\ idx < limit
    THEN [cmd_idx |-> idx + 1, write |-> idx, stored |-> c, echo |-> "char",
          done |-> FALSE, w |-> BufferWrite(buf, idx, c)]
    ELSE [cmd_idx |-> idx, write |-> Stale, stored |-> Stale, echo |-> "none",
          done |-> FALSE, w |-> [buf |-> buf, oob |-> FALSE]]

\* Variant: the printable branch is guarded by the size of the buffer.
ReadCharUpToSize(c, idx, buf) == ReadCharGuarded(c, idx, buf, CMD_BUFFER_SIZE)

read_char(c, idx, buf) == ReadCharGuarded(c, idx, buf, CMD_IDX_LIMIT)

\* The C string at the start of buf: the cells before the first NUL.
RECURSIVE CStringFrom(_, _)
CStringFrom(buf, i) ==
    IF i \notin DOMAIN buf \/ buf[i] = 0 THEN <<>>
    ELSE <<buf[i]>> \o CStringFrom(buf, i + 1)
CString(buf) == CStringFrom(buf, 0)

\* What uart_getc can return: CR, LF, the two backspace codes, the
\* control code 31, the byte 128, the letter 'a', and, in the first
\* MaxVaried positions of a line, the printable codes 32 and 126.
ReceivedChars(idx) ==
    {10, 13, 8, 127, 31, 128, 97} \cup (IF idx < MaxVaried THEN {32, 126} ELSE {})

ConsoleUnchanged == UNCHANGED <<sheaf_problem, uart, boot>>

\* kmain before the command loop: `char cmd_buffer[64]; int cmd_idx = 0;`
InitConsole ==
    /\ LearnerOff
    /\ BootOff
    /\ sheaf_problem = NoProblem
    /\ uart = NoUart
    /\ cmd_idx = 0
    /\ cmd_buffer = StaleBuffer
    /\ console = [running |-> TRUE, pc |-> "prompt", lines |-> 0, processed |-> 0,
                  last_char |-> Stale, write |-> Stale, stored |-> Stale,
                  echo |-> "none", oob |-> FALSE, last_cmd |-> <<>>,
                  reset |-> TRUE]

\* Lines 205-207: the prompt and `cmd_idx = 0`.
Prompt ==
    /\ console.pc = "prompt"
    /\ cmd_idx' = 0
    /\ cmd_buffer' = StaleBuffer
    /\ console' = [console EXCEPT !.pc = "read", !.reset = TRUE, !.last_char = Stale,
                                  !.write = Stale, !.stored = Stale, !.echo = "prompt",
                                  !.last_cmd = <<>>]
    /\ ConsoleUnchanged
    /\ LearnerUnchanged

\* Lines 210-227: uart_getc returned c.
ReadChar ==
    /\ console.pc = "read"
    /\ \E c \in ReceivedChars(cmd_idx) :
         LET r == read_char(c, cmd_idx, cmd_buffer)
         IN /\ r.done => console.lines < MaxLines
            /\ cmd_idx' = r.cmd_idx
            /\ cmd_buffer' = r.w.buf
            /\ console' = [console EXCEPT
                             !.pc = IF r.done THEN "process" ELSE "read",
                             !.lines = IF r.done THEN console.lines + 1 ELSE console.lines,
                             !.last_char = c,
                             !.write = r.write,
                             !.stored = r.stored,
                             !.echo = r.echo,
                             !.oob = console.oob \/ r.w.oob,
                             !.reset = FALSE]
    /\ ConsoleUnchanged
    /\ LearnerUnchanged

\* Line 231: process_command(cmd_buffer).
ProcessCommand ==
    /\ console.pc = "process"
    /\ console' = [console EXCEPT !.pc = "prompt",
                                  !.processed = console.processed + 1,
                                  !.last_cmd = CString(cmd_buffer)]
    /\ UNCHANGED <<cmd_idx, cmd_buffer>>
    /\ ConsoleUnchanged
    /\ LearnerUnchanged

NextConsole == Prompt \/ ReadChar \/ ProcessCommand

SpecConsole == InitConsole /\ [][NextConsole]_vars


\* ---------------------------------------------------------- bootloader
\* EFI_ERROR(Status): every status but EFI_SUCCESS used here has the high
\* bit set, EFI_BUFFER_TOO_SMALL included.
EFI_ERROR(Status) == Status /= "EFI_SUCCESS"

\* The two bootloaders: BonsaiBootloader.c (UefiMain, LoadKernelFile) and
\* uefi/bootloader/main.c (efi_main, LoadFileFromEsp).
Bootloaders == {"edk2", "gnuefi"}

\* A boot service is called: after ExitBootServices succeeded this is a
\* call into firmware that is gone.
BootService(b) == [b EXCEPT !.after_exit = b.after_exit \/ b.exited]

CloseFile(b) == [b EXCEPT !.File = "closed", !.file_closes = b.file_closes + 1]
CloseRoot(b) == [b EXCEPT !.Root = "closed", !.root_closes = b.root_closes + 1]
FreeFileInfo(b) ==
    BootService([b EXCEPT !.FileInfo = "freed", !.info_frees = b.info_frees + 1])
\* File->Close(File); Root->Close(Root);
CloseBoth(b) == CloseRoot(CloseFile(b))

\* `return Status;` of the file loader.
LoadReturn(b, Status) == [b EXCEPT !.pc = "load_ret", !.Status = Status]

\* What LoadKernelFile does before `return` when a step after Root->Open
\* failed (lines 57-58, 64-65, 82-83); LoadFileFromEsp returns at once.
FailAfterOpen(b, Status) ==
    IF b.which = "edk2" THEN LoadReturn(CloseBoth(b), Status) ELSE LoadReturn(b, Status)

\* Variant of the read-failure path that keeps *Buffer.
ReadFailedKeepBuffer(b, Status) == [b EXCEPT !.Status = Status]

\* Lines 88-91: FreePool(*Buffer); *Buffer = NULL;
ReadFailed(b, Status) ==
    BootService([b EXCEPT !.Status = Status, !.KernelBuffer = "NULL",
                          !.buffer_frees = b.buffer_frees + 1])

\* The end of the file loader after File->Read returned Status having
\* read n bytes.  LoadKernelFile closes both handles on either outcome;
\* LoadFileFromEsp returns from inside the error branch and closes the
\* handles and frees FileInfo on success only.
AfterRead(b, Status, n) ==
    IF EFI_ERROR(Status)
    THEN IF b.which = "edk2"
         THEN LoadReturn(CloseBoth(ReadFailed(b, Status)), Status)
         ELSE LoadReturn(ReadFailed(b, Status), Status)
    ELSE LET read == [b EXCEPT !.KernelSize = n, !.bytes = n]
         IN IF b.which = "edk2"
            THEN LoadReturn(CloseBoth(read), Status)
            ELSE LoadReturn(FreeFileInfo(CloseRoot(CloseFile(read))), "EFI_SUCCESS")

\* `return Status` of UefiMain, or the Exit label of efi_main (a message,
\* ConIn->Reset, WaitForEvent, return Status); `failed` names the step.
BootReturn(b, Status, failed) ==
    BootService([b EXCEPT !.pc = "returned", !.ret = Status, !.failed = failed])

\* FreePool(KernelStack); FreePool(KernelBuffer); of UefiMain.  efi_main
\* frees nothing on its way out.
FreeOnFailure(b, stack, map) ==
    IF b.which = "edk2"
    THEN BootService([b EXCEPT !.KernelBuffer = "freed",
                               !.KernelStack = IF stack THEN "freed" ELSE b.KernelStack,
                               !.MemoryMap = IF map THEN "freed" ELSE b.MemoryMap])
    ELSE b

Reached(b, step, pc) == [b EXCEPT !.steps = Append(b.steps, step), !.pc = pc]

BootUnchanged == UNCHANGED <<sheaf_problem, uart, cmd_idx, cmd_buffer, console>>

\* The entry of UefiMain / efi_main.
InitBoot ==
    /\ LearnerOff
    /\ KernelOff
    /\ \E which \in Bootloaders :
         boot = [pc |-> "entry", which |-> which, Status |-> "EFI_SUCCESS",
                 Root |-> "none", root_closes |-> 0, File |-> "none", file_closes |-> 0,
                 FileInfo |-> "NULL", info_frees |-> 0,
                 KernelBuffer |-> "NULL", buffer_frees |-> 0, KernelSize |-> 0,
                 FileSize |-> 0, bytes |-> 0,
                 BootInfo |-> "NULL", KernelStack |-> "NULL", MemoryMap |-> "NULL",
                 steps |-> <<>>, exited |-> FALSE, after_exit |-> FALSE,
                 failed |-> "none", ret |-> "none"]

\* ClearScreen and the banner.
Banner ==
    /\ boot.pc = "entry"
    /\ boot' = BootService([boot EXCEPT !.pc = "load1"])
    /\ BootUnchanged /\ LearnerUnchanged

\* gBS->HandleProtocol for the loaded image, then for the file system.
HandleProtocol ==
    /\ boot.pc \in {"load1", "load2"}
    /\ \E Status \in {"EFI_SUCCESS", "EFI_UNSUPPORTED"} :
         boot' = IF EFI_ERROR(Status) THEN LoadReturn(BootService(boot), Status)
                 ELSE BootService([boot EXCEPT !.pc = IF boot.pc = "load1" THEN "load2"
                                                       ELSE "load3"])
    /\ BootUnchanged /\ LearnerUnchanged

\* FileSystem->OpenVolume(FileSystem, &Root)
OpenVolume ==
    /\ boot.pc = "load3"
    /\ \E Status \in {"EFI_SUCCESS", "EFI_DEVICE_ERROR"} :
         boot' = IF EFI_ERROR(Status) THEN LoadReturn(boot, Status)
                 ELSE [boot EXCEPT !.pc = "load4", !.Root = "open"]
    /\ BootUnchanged /\ LearnerUnchanged

\* Root->Open(Root, &File, FileName, ...): LoadKernelFile closes Root on
\* failure (lines 49-52), LoadFileFromEsp returns.
OpenFile ==
    /\ boot.pc = "load4"
    /\ \E Status \in {"EFI_SUCCESS", "EFI_NOT_FOUND"} :
         boot' = IF EFI_ERROR(Status)
                 THEN (IF boot.which = "edk2" THEN LoadReturn(CloseRoot(boot), Status)
                       ELSE LoadReturn(boot, Status))
                 ELSE [boot EXCEPT !.pc = "load5", !.File = "open"]
    /\ BootUnchanged /\ LearnerUnchanged

\* File->GetInfo with FileInfoSize = 0: EFI_BUFFER_TOO_SMALL, or an error
\* of the device.
GetInfoSize ==
    /\ boot.pc = "load5"
    /\ \E Status \in {"EFI_BUFFER_TOO_SMALL", "EFI_DEVICE_ERROR"} :
         boot' = IF Status /= "EFI_BUFFER_TOO_SMALL" THEN FailAfterOpen(boot, Status)
                 ELSE [boot EXCEPT !.pc = "load6"]
    /\ BootUnchanged /\ LearnerUnchanged

\* FileInfo = AllocatePool(FileInfoSize)
AllocFileInfo ==
    /\ boot.pc = "load6"
    /\ \E ok \in BOOLEAN :
         boot' = IF ~ok THEN FailAfterOpen(BootService(boot), "EFI_OUT_OF_RESOURCES")
                 ELSE BootService([boot EXCEPT !.pc = "load7", !.FileInfo = "allocated"])
    /\ BootUnchanged /\ LearnerUnchanged

\* File->GetInfo into FileInfo; *Size = FileInfo->FileSize.  LoadKernelFile
\* frees FileInfo here on both outcomes (lines 71 and 78).
GetInfo ==
    /\ boot.pc = "load7"
    /\ \E Status \in {"EFI_SUCCESS", "EFI_DEVICE_ERROR"}, size \in 0 .. MaxFileSize :
         /\ EFI_ERROR(Status) => size = 0
         /\ boot' = IF EFI_ERROR(Status)
                    THEN (IF boot.which = "edk2" THEN FailAfterOpen(FreeFileInfo(boot), Status)
                          ELSE FailAfterOpen(boot, Status))
                    ELSE LET sized == [boot EXCEPT !.pc = "load8", !.FileSize = size,
                                                   !.KernelSize = size]
                         IN IF boot.which = "edk2" THEN FreeFileInfo(sized) ELSE sized
    /\ BootUnchanged /\ LearnerUnchanged

\* *Buffer = AllocatePool(*Size)
AllocBuffer ==
    /\ boot.pc = "load8"
    /\ \E ok \in BOOLEAN :
         boot' = IF ~ok THEN FailAfterOpen(BootService(boot), "EFI_OUT_OF_RESOURCES")
                 ELSE BootService([boot EXCEPT !.pc = "load9", !.KernelBuffer = "allocated"])
    /\ BootUnchanged /\ LearnerUnchanged

\* File->Read(File, Size, *Buffer) and the rest of the loader.
ReadFile ==
    /\ boot.pc = "load9"
    /\ \E Status \in {"EFI_SUCCESS", "EFI_DEVICE_ERROR"}, n \in 0 .. boot.FileSize :
         /\ EFI_ERROR(Status) => n = 0
         /\ boot' = AfterRead(boot, Status, n)
    /\ BootUnchanged /\ LearnerUnchanged

\* The caller's test of the loader's status (UefiMain lines 157-163,
\* efi_main lines 119-123).
AfterLoad ==
    /\ boot.pc = "load_ret"
    /\ boot' = IF EFI_ERROR(boot.Status) THEN BootReturn(boot, boot.Status, "load")
               ELSE BootService(Reached(boot, "load",
                                        IF boot.which = "edk2" THEN "stack" ELSE "bootinfo"))
    /\ BootUnchanged /\ LearnerUnchanged

\* efi_main lines 126-132: AllocatePool for boot_info_t.
AllocBootInfo ==
    /\ boot.pc = "bootinfo"
    /\ \E ok \in BOOLEAN :
         boot' = IF ~ok THEN BootReturn(boot, "EFI_OUT_OF_RESOURCES", "bootinfo")
                 ELSE BootService([boot EXCEPT !.pc = "stack", !.BootInfo = "allocated"])
    /\ BootUnchanged /\ LearnerUnchanged

\* The kernel stack (UefiMain lines 166-173, efi_main lines 135-141).
AllocStack ==
    /\ boot.pc = "stack"
    /\ \E ok \in BOOLEAN :
         boot' = IF ~ok
                 THEN BootReturn(FreeOnFailure(boot, FALSE, FALSE), "EFI_OUT_OF_RESOURCES",
                                 "stack")
                 ELSE BootService(Reached([boot EXCEPT !.KernelStack = "allocated"],
                                          "stack", "map1"))
    /\ BootUnchanged /\ LearnerUnchanged

\* GetMemoryMap with MapSize = 0, and the AllocatePool for the map.
GetMemoryMapSize ==
    /\ boot.pc = "map1"
    /\ \E Status \in {"EFI_BUFFER_TOO_SMALL", "EFI_INVALID_PARAMETER"}, ok \in BOOLEAN :
         /\ Status /= "EFI_BUFFER_TOO_SMALL" => ok
         /\ boot' = IF Status /= "EFI_BUFFER_TOO_SMALL"
                    THEN BootReturn(FreeOnFailure(boot, TRUE, TRUE), Status, "map")
                    ELSE IF ~ok
                    THEN BootReturn(FreeOnFailure(boot, TRUE, FALSE), "EFI_OUT_OF_RESOURCES",
                                    "map")
                    ELSE BootService([boot EXCEPT !.pc = "map2", !.MemoryMap = "allocated"])
    /\ BootUnchanged /\ LearnerUnchanged

\* The second GetMemoryMap: the map may have grown past the buffer.
GetMemoryMap ==
    /\ boot.pc = "map2"
    /\ \E Status \in {"EFI_SUCCESS", "EFI_BUFFER_TOO_SMALL"} :
         boot' = IF EFI_ERROR(Status)
                 THEN BootReturn(FreeOnFailure(boot, TRUE, TRUE), Status, "map")
                 ELSE BootService(Reached(boot, "map",
                                          IF boot.which = "edk2" THEN "countdown" ELSE "exit"))
    /\ BootUnchanged /\ LearnerUnchanged

\* UefiMain lines 195-199: two messages and Stall(2000000).
Countdown ==
    /\ boot.pc = "countdown"
    /\ boot' = BootService([boot EXCEPT !.pc = "exit"])
    /\ BootUnchanged /\ LearnerUnchanged

\* gBS->ExitBootServices(ImageHandle, MapKey): EFI_INVALID_PARAMETER when
\* the map changed since MapKey was obtained.  On failure both
\* bootloaders loop forever.
ExitBootServices ==
    /\ boot.pc = "exit"
    /\ \E Status \in {"EFI_SUCCESS", "EFI_INVALID_PARAMETER"} :
         boot' = IF EFI_ERROR(Status)
                 THEN [BootService(boot) EXCEPT !.pc = "hang", !.failed = "exit",
                                                !.Status = Status]
                 ELSE [Reached(BootService(boot), "exit", "jump") EXCEPT
                          !.exited = TRUE, !.Status = Status]
    /\ BootUnchanged /\ LearnerUnchanged

\* JumpToKernel(KernelBuffer, KernelStackTop) / jump_to_kernel.
JumpToKernel ==
    /\ boot.pc = "jump"
    /\ boot' = [boot EXCEPT !.pc = "kernel"]
    /\ BootUnchanged /\ LearnerUnchanged

NextBoot ==
    \/ Banner \/ HandleProtocol \/ OpenVolume \/ OpenFile \/ GetInfoSize
    \/ AllocFileInfo \/ GetInfo \/ AllocBuffer \/ ReadFile \/ AfterLoad
    \/ AllocBootInfo \/ AllocStack \/ GetMemoryMapSize \/ GetMemoryMap
    \/ Countdown \/ ExitBootServices \/ JumpToKernel

SpecBoot == InitBoot /\ [][NextBoot]_vars

\* ============================================================= claims

\* C1: on a solver on which no fit call has yet returned a solution
\* (fresh, or after failed fit calls only), every predict call throws
\* NotFitted and returns no value.
C1_PredictBeforeFitNotFitted ==
    (call.op = "predict" /\ ~hist.fitReturned)
        => (call.kind = "throw" /\ call.exc = "NotFitted")

\* C1 witness: predict threw NotFitted on a solver whose only fit calls
\* so far have failed.
C1_Witness ==
    /\ call.op = "predict"
    /\ call.exc = "NotFitted"
    /\ hist.fitThrew
    /\ ~hist.fitReturned

\* C2 (as claimed): whenever fit returns a solution, the solver is Fitted
\* afterwards, in every build.
C2_FitReturnImpliesFitted ==
    (call.op = "fit" /\ call.kind = "return") => fitted_

\* C3 (as claimed, for the Eigen build): a fit call that throws leaves
\* fitted_, solution_ and the registry patch_configs_ exactly as they were.
C3_FailedFitChangesNothing ==
    [][(USE_EIGEN3 /\ call'.op = "fit" /\ call'.kind = "throw")
         => (fitted_' = fitted_ /\ solution_' = solution_
             /\ patch_configs_' = patch_configs_)]_vars

\* C4 (as claimed, for the Eigen build): a fit whose problem has a gluing
\* naming a patch the problem does not have fails with UnknownPatch and
\* with no other kind of error, whatever calls came before; the problems
\* here have only patches with n_positions >= 1.
C4_DanglingGluingUnknownPatch ==
    (/\ USE_EIGEN3
     /\ call.op = "fit"
     /\ call.dangling
     /\ call.positive) => (call.kind = "throw" /\ call.exc = "UnknownPatch")

\* C5: on a Fitted solver predict throws UnknownPatch exactly when the
\* name is not a patch name of the problem of the most recent fit that
\* returned.
C5_PredictUnknownPatchIff ==
    (call.op = "predict" /\ fitted_)
        => ((call.kind = "throw" /\ call.exc = "UnknownPatch")
              <=> call.patch_name \notin hist.okNames)

\* C5 witness: a name still in the registry from an earlier problem (or
\* from a gluing) is rejected with UnknownPatch on a Fitted solver.
C5_Witness ==
    /\ call.op = "predict"
    /\ fitted_
    /\ call.exc = "UnknownPatch"
    /\ call.patch_name \in DOMAIN patch_configs_
    /\ call.patch_name \notin hist.okNames

\* residual_error >= 0, and converged exactly when residual_error == 0.
SolutionConsistent(sol) ==
    /\ RNonNeg(sol.residual_error)
    /\ sol.converged <=> (sol.residual_error = RZero)

\* C6 (as claimed): the solution a fit call returns, and the one then
\* stored in the solver, satisfy residual_error >= 0 and
\* converged <=> residual_error == 0.
C6_SolutionConsistent ==
    (call.op = "fit" /\ call.kind = "return")
        => (SolutionConsistent(call.ret) /\ SolutionConsistent(solution_))

\* C7 (as claimed): the outcome of fit depends on the problem only: a fit
\* call on a solver with a history ends as the same call can end on a
\* freshly constructed solver.
C7_FitOutcomeAsOnFreshSolver ==
    call.op = "fit" => call.asFresh

\* ------------------------------------------------- one fit call (SpecFit)
\* The names of the patches of the input are pairwise different.
UniqueNames(problem) ==
    \A i, j \in 1 .. Len(problem.patches) :
        problem.patches[i].name = problem.patches[j].name => i = j

Width(patch) == patch.config.n_positions * patch.config.n_characters

\* The sum of n_positions * n_characters over patches 1 .. i of the problem.
RECURSIVE WidthsUpTo(_, _)
WidthsUpTo(problem, i) ==
    IF i = 0 THEN 0 ELSE WidthsUpTo(problem, i - 1) + Width(problem.patches[i])

\* The sum of the numbers of samples over patches 1 .. i of the problem.
RECURSIVE SamplesUpTo(_, _)
SamplesUpTo(problem, i) ==
    IF i = 0 THEN 0 ELSE SamplesUpTo(problem, i - 1) + Len(problem.patches[i].V_samples)

\* The problem keeps the invariants the data model states: unique patch
\* names, 1 <= n_characters <= n_positions, every sample and every gluing
\* datum has n_positions rows, and gluings name patches of the problem.
WellFormed(problem) ==
    /\ UniqueNames(problem)
    /\ \A i \in 1 .. Len(problem.patches) :
          LET P == problem.patches[i]
          IN /\ 1 <= P.config.n_characters
             /\ P.config.n_characters <= P.config.n_positions
             /\ \A s \in 1 .. Len(P.V_samples) : Rows(P.V_samples[s]) = P.config.n_positions
    /\ \A g \in 1 .. Len(problem.gluings) :
          \A i \in 1 .. Len(problem.patches) :
             LET P == problem.patches[i]
                 G == problem.gluings[g]
             IN /\ G.patch_1 = P.name => Rows(G.constraint_data_1) = P.config.n_positions
                /\ G.patch_2 = P.name => Rows(G.constraint_data_2) = P.config.n_positions
    /\ ~HasDanglingGluing(problem)

\* The fit call on the input got as far as assembling the system.
Assembled == call.op = "fit" /\ locals.built

\* C8: for a problem with unique patch names, the offset recorded for the
\* i-th patch is the sum of the widths n_positions * n_characters of the
\* patches before it, its recorded width is its own, and so every column
\* of [0, total weights) lies in the range of exactly one patch; a patch
\* without samples reserves its range like any other.
C8_ColumnLayout ==
    (Assembled /\ UniqueNames(input))
        => LET ps == input.patches
               n == Len(ps)
               off(i) == locals.patch_offsets[ps[i].name]
               wid(i) == locals.patch_n_weights[ps[i].name]
           IN /\ DOMAIN locals.patch_offsets = PatchNamesOf(input)
              /\ DOMAIN locals.patch_n_weights = PatchNamesOf(input)
              /\ \A i \in 1 .. n :
                    /\ off(i) = WidthsUpTo(input, i - 1)
                    /\ wid(i) = Width(ps[i])
              /\ \A c \in 0 .. WidthsUpTo(input, n) - 1 :
                    Cardinality({i \in 1 .. n : off(i) <= c /\ c < off(i) + wid(i)}) = 1
              /\ \A i \in 1 .. n : off(i) + wid(i) <= WidthsUpTo(input, n)

\* C8 witness: two patches with different names; the first has no samples
\* and a positive width, and the second starts right after it.
C8_Witness ==
    /\ Assembled
    /\ UniqueNames(input)
    /\ Len(input.patches) = 2
    /\ Len(input.patches[1].V_samples) = 0
    /\ Width(input.patches[1]) = 2
    /\ Width(input.patches[2]) > 0
    /\ locals.patch_offsets[input.patches[2].name] = 2

\* C9 (as claimed, for well-formed problems): the assembled system has
\* (number of samples) + (number of gluings) rows and (sum of all patches'
\* widths) columns, as many columns as the gluing rows have, and no block
\* copied into it reaches outside it.
C9_AssembledShape ==
    (Assembled /\ WellFormed(input))
        => /\ locals.A_sheaf.rows = SamplesUpTo(input, Len(input.patches)) + Len(input.gluings)
           /\ locals.A_sheaf.cols = WidthsUpTo(input, Len(input.patches))
           /\ Len(input.gluings) > 0 => locals.A_gluing.cols = locals.A_sheaf.cols
           /\ ~locals.block_oob

\* C10 (as claimed, for well-formed problems): in A_sheaf the row of
\* sample s of the i-th patch holds that patch's feature row of the sample
\* in the patch's column range and zero elsewhere, b_sheaf holds
\* targets[s](0, 0) there, and local rows come first (patches in problem
\* order, samples in order).
C10_BlockDiagonalLocalRows ==
    (Assembled /\ WellFormed(input))
        => \A i \in 1 .. Len(input.patches) :
             \A s \in 1 .. Len(input.patches[i].V_samples) :
               LET P == input.patches[i]
                   r == SamplesUpTo(input, i - 1) + (s - 1)
                   off == WidthsUpTo(input, i - 1)
                   f == get_feature_row(P.V_samples[s], P.config, P.config.n_positions).vec
               IN /\ r < locals.A_sheaf.rows
                  /\ locals.b_sheaf.at[r] = IntCell(P.targets[s])
                  /\ \A c \in 0 .. WidthsUpTo(input, Len(input.patches)) - 1 :
                        /\ c < locals.A_sheaf.cols
                        /\ locals.A_sheaf.at[<<r, c>>] =
                             (IF off <= c /\ c < off + Width(P) THEN f.at[c - off]
                              ELSE ZeroCell)

\* ------------------------------------------------------------ gluing rows
\* The index in problem.patches of the patch called name.
PatchIndex(problem, name) ==
    CHOOSE i \in 1 .. Len(problem.patches) : problem.patches[i].name = name

\* What C11 says column c of the row of gluing g holds: +feature_row_1 in
\* P1's range, -feature_row_2 (0 - feature_row_2) in P2's range, the
\* difference where the two ranges are one, and zero elsewhere.
ClaimedGluingCell(problem, g, c) ==
    LET G == problem.gluings[g]
        i1 == PatchIndex(problem, G.patch_1)
        i2 == PatchIndex(problem, G.patch_2)
        P1 == problem.patches[i1]
        P2 == problem.patches[i2]
        off1 == WidthsUpTo(problem, i1 - 1)
        off2 == WidthsUpTo(problem, i2 - 1)
        f1 == get_feature_row(G.constraint_data_1, P1.config, P1.config.n_positions).vec
        f2 == get_feature_row(G.constraint_data_2, P2.config, P2.config.n_positions).vec
        in1 == off1 <= c /\ c < off1 + Width(P1)
        in2 == off2 <= c /\ c < off2 + Width(P2)
    IN IF in1 /\ in2 THEN SubCell(f1.at[c - off1], f2.at[c - off2])
       ELSE IF in1 THEN f1.at[c - off1]
       ELSE IF in2 THEN SubCell(ZeroCell, f2.at[c - off2])
       ELSE ZeroCell

\* C11 (as claimed, for well-formed problems): A_gluing has exactly one row
\* per gluing; the row of gluing g holds +feature_row(constraint_data_1) in
\* P1's column range, -feature_row(constraint_data_2) in P2's, their
\* difference when P1 = P2, exactly zero in every other column, and the
\* matching target entry is exactly 0.
C11_GluingRows ==
    (Assembled /\ WellFormed(input) /\ Len(input.gluings) > 0)
        => /\ locals.A_gluing.rows = Len(input.gluings)
           /\ locals.A_gluing.cols = WidthsUpTo(input, Len(input.patches))
           /\ \A g \in 1 .. Len(input.gluings) :
                 /\ locals.b_gluing.at[g - 1] = ZeroCell
                 /\ \A c \in 0 .. locals.A_gluing.cols - 1 :
                       locals.A_gluing.at[<<g - 1, c>>] = ClaimedGluingCell(input, g, c)

\* The case of C11 the code does implement: a gluing of a patch with itself.
C11_SelfGluingRows ==
    (/\ Assembled /\ WellFormed(input) /\ Len(input.gluings) > 0
     /\ \A g \in 1 .. Len(input.gluings) :
           input.gluings[g].patch_1 = input.gluings[g].patch_2
     /\ Len(input.patches) = 1)
        => /\ locals.A_gluing.rows = Len(input.gluings)
           /\ \A g \in 1 .. Len(input.gluings) :
                 \A c \in 0 .. locals.A_gluing.cols - 1 :
                       locals.A_gluing.at[<<g - 1, c>>] = ClaimedGluingCell(input, g, c)

\* ------------------------------------------------------------ unpacking
\* C12 (as claimed, for well-formed problems): after a fit that returned,
\* solution.weights has one entry per patch of the problem and no other;
\* the entry of patch P has shape [n_positions x n_characters] and its
\* element (p, j) is w[offset_P + p * n_characters + j], an index that
\* lies inside the solved vector w.
C12_UnpackedWeights ==
    (Assembled /\ WellFormed(input) /\ call.kind = "return")
        => /\ DOMAIN call.ret.weights = PatchNamesOf(input)
           /\ \A i \in 1 .. Len(input.patches) :
                 LET P == input.patches[i]
                     W == call.ret.weights[P.name]
                     off == WidthsUpTo(input, i - 1)
                 IN /\ W.rows = P.config.n_positions
                    /\ W.cols = P.config.n_characters
                    /\ \A p \in 0 .. P.config.n_positions - 1, j \in 0 .. P.config.n_characters - 1 :
                          LET idx == off + p * P.config.n_characters + j
                          IN /\ idx < locals.w_solution.size
                             /\ W.at[<<p, j>>] = locals.w_solution.at[idx]

\* ------------------------------------------------------------ predict
\* C13 (as claimed, for a well-formed one-patch problem and a signal V of
\* n_positions rows): the value predict returns is the plain sum over c of
\* feature_row(V)[c] * w[offset + c], the row V would contribute to A times
\* the solved vector.  The value returned is SUM_c conj(conj_a[c]) * b[c].
C13_PredictLinearForm ==
    (/\ call.op = "predict" /\ call.kind = "return"
     /\ Len(input.patches) = 1 /\ WellFormed(input)
     /\ Rows(call.V) = input.patches[1].config.n_positions)
        => LET P == input.patches[1]
               f == get_feature_row(call.V, P.config, P.config.n_positions).vec
               off == locals.patch_offsets[P.name]
           IN /\ call.ret.k = "dot"
              /\ \A c \in 0 .. Width(P) - 1 :
                    /\ call.ret.b.at[c] = locals.w_solution.at[off + c]
                    /\ ValEq(ConjCell(call.ret.conj_a.at[c]), f.at[c])

\* ------------------------------------------------------------ empty problem
\* C14 (as claimed): fit on a problem with zero patches and zero gluings
\* returns a solution with an empty weights map, residual_error == 0 and
\* converged == true, and the solver is Fitted afterwards.
C14_EmptyProblemFit ==
    (call.op = "fit" /\ call.n_patches = 0 /\ call.n_gluings = 0)
        => /\ call.kind = "return"
           /\ call.ret.weights = EmptyMap
           /\ call.ret.residual_error = RZero
           /\ call.ret.converged
           /\ fitted_

\* C14 in the Eigen build alone: the same, and the assembled system has 0
\* rows and 0 columns.
C14_EmptyProblemFitEigen ==
    (USE_EIGEN3 /\ call.op = "fit" /\ call.n_patches = 0 /\ call.n_gluings = 0)
        => /\ call.kind = "return"
           /\ call.ret.weights = EmptyMap
           /\ call.ret.residual_error = RZero
           /\ call.ret.converged
           /\ fitted_
           /\ solution_ = call.ret
           /\ locals.built => (locals.A_sheaf.rows = 0 /\ locals.A_sheaf.cols = 0)

\* ------------------------------------------------- CyclicGroupCharacters
\* C15: constructing with n == 0 throws InvalidOrder and leaves no object;
\* for n >= 1 construction succeeds with an n x n table, and no operation
\* on the object changes n_ or the table afterwards.
C15_ConstructAndImmutable ==
    /\ [](call.op = "construct"
            => /\ (call.kind = "throw" /\ call.exc = "InvalidOrder") <=> call.n = 0
               /\ call.n = 0 => ~group.constructed
               /\ call.n >= 1 =>
                     /\ call.kind = "return"
                     /\ group.constructed
                     /\ group.n_ = call.n
                     /\ DOMAIN group.characters_ = (0 .. call.n - 1) \X (0 .. call.n - 1))
    /\ [][group.constructed => group' = group]_vars

\* C15 witness: a construction with n == 0 threw and left no object.
C15_Witness ==
    /\ call.op = "construct"
    /\ call.n = 0
    /\ call.exc = "InvalidOrder"
    /\ ~group.constructed

\* C16: character(j, k) throws IndexOutOfRange exactly when j >= n or
\* k >= n; otherwise it returns omega^(j*k), which depends on (j*k) mod n
\* only, so character(j, k) = character(k, j) and character(0, k) = 1.
C16_CharacterRange ==
    call.op = "character"
        => LET n == group.n_
           IN /\ (call.kind = "throw" /\ call.exc = "IndexOutOfRange")
                    <=> (call.j >= n \/ call.k >= n)
              /\ call.kind = "return" =>
                    /\ call.ret = (call.j * call.k) % n
                    /\ call.ret = group.characters_[<<call.j, call.k>>]
                    /\ call.ret = character(n, call.k, call.j).e
                    /\ call.j = 0 => call.ret = 0
                    /\ \A j2, k2 \in 0 .. n - 1 :
                          (j2 * k2) % n = (call.j * call.k) % n
                              => character(n, j2, k2).e = call.ret

\* C16 witness: j is in range, k is not, and the call threw.
C16_Witness ==
    /\ call.op = "character"
    /\ call.j < group.n_
    /\ call.k >= group.n_
    /\ call.exc = "IndexOutOfRange"

\* C17: for rows(V) >= 1 and k >= 0, row i of rotate(V, k) is row
\* (i - k) mod rows(V) of V; so rotate(V, 0) = V and
\* rotate(V, k) = rotate(V, k mod rows(V)).
C17_RotateCyclicShift ==
    call.op = "rotate"
        => LET rows == Rows(call.V)
           IN /\ Rows(call.ret) = rows
              /\ \A i \in 0 .. rows - 1 :
                    call.ret[i + 1] = call.V[((i + rows * call.k - call.k) % rows) + 1]
              /\ call.k = 0 => call.ret = call.V
              /\ call.ret = rotate(call.V, call.k % rows)

\* C17 witness: a signal of three rows shifted by more than its length,
\* and the result differs from the signal.
C17_Witness ==
    /\ call.op = "rotate"
    /\ Rows(call.V) = 3
    /\ call.k > 3
    /\ call.ret # call.V

\* Entry (i, 0) of the projection C18 describes:
\* (1/m) * SUM_{k < m} conj(omega^(j*k)) * rotate(V, k)(i, 0), m = min(rows(V), n).
ClaimedProjectionCell(n, V, j, i) ==
    LET rows == Rows(V)
        m == Min(rows, n)
        ks(e) == {k \in 0 .. m - 1 : (n * j * k - j * k) % n = e}
    IN [k |-> "val", n |-> n, den |-> m,
        num |-> [e \in 0 .. n - 1 |->
                   SumFn([k \in ks(e) |-> V[((i + rows * k - k) % rows) + 1]], ks(e))]]

C19_LearnDesignMatrix ==
    (/\ USE_EIGEN3
     /\ call.op = "learn"
     /\ Len(call.V_samples) > 0
     /\ Len(call.V_samples) = Len(call.targets)
     /\ \A i \in 1 .. Len(call.V_samples) :
           /\ Rows(call.V_samples[i]) = Rows(call.V_samples[1])
           /\ Rows(call.targets[i]) = Rows(call.V_samples[i]))
        => /\ call.kind = "return"
           /\ call.ret.A.cols = group.n_
           /\ call.ret.A.rows = Len(call.V_samples) * Rows(call.V_samples[1])
           /\ call.ret.coeffs.size = group.n_
           /\ ~call.ret.beyond
           /\ \A rc \in DOMAIN call.ret.A.at : ~IsIndeterminate(call.ret.A.at[rc])

\* C20: (1/n) SUM_k character(j, k) conj(character(j2, k)) is 1 for
\* j = j2 and 0 otherwise; on exponents, the sum over k of
\* omega^((j - j2) * k) is n for j = j2 and 0 otherwise.
C20_Orthogonality ==
    group.constructed
        => LET n == group.n_
               d(j, j2) == [e \in 0 .. n - 1 |->
                              Cardinality({k \in 0 .. n - 1 :
                                  (group.characters_[<<j, k>>] + n
                                     - group.characters_[<<j2, k>>]) % n = e})]
           IN \A j, j2 \in 0 .. n - 1 :
                 IsZeroComb(n, [e \in 0 .. n - 1 |->
                                  d(j, j2)[e] - (IF j = j2 /\ e = 0 THEN n ELSE 0)])

\* C20 witness: a group of the largest order was constructed.
C20_Witness ==
    /\ group.constructed
    /\ group.n_ = MaxOrder
    /\ call.op = "character"
    /\ call.kind = "return"

\* The complex number v (an integer) as a "val" cell over order n.
IntVal(n, v) ==
    [k |-> "val", n |-> n, den |-> 1, num |-> [e \in 0 .. n - 1 |-> IF e = 0 THEN v ELSE 0]]

\* The call was reconstruct_from_characters(ones(n), decompose_into_characters(V))
\* on the group of order n, for a signal of L rows with 1 <= L <= n.
RoundTripCall ==
    /\ group.constructed
    /\ call.op = "reconstruct"
    /\ call.n_projections > 0
    /\ Len(call.coefficients) = group.n_
    /\ 1 <= Rows(call.V) /\ Rows(call.V) <= group.n_

\* The matrix returned by the call has the rows of V and equals V entry
\* for entry.
ReturnsV ==
    /\ call.kind = "return"
    /\ call.ret.rows = Rows(call.V)
    /\ \A i \in 0 .. Rows(call.V) - 1 :
          ValEq(call.ret.at[i], IntVal(group.n_, call.V[i + 1]))

\* C21 (as claimed): for every signal V of L rows with 1 <= L <= n,
\* reconstruct_from_characters(ones(n), decompose_into_characters(V))
\* returns V: the sum of all returned projections equals V.
C21_RoundTrip == RoundTripCall => ReturnsV

\* C21, supporting: the round trip reproduces V when V has exactly n rows,
\* and when V has one row.
C21_RoundTripFullLength ==
    (RoundTripCall /\ Rows(call.V) \in {1, group.n_}) => ReturnsV

\* A predict call leaves fitted_, solution_ and patch_configs_ as they were.
PredictChangesNothing ==
    call'.op = "predict"
        => (fitted_' = fitted_ /\ solution_' = solution_ /\ patch_configs_' = patch_configs_)

\* A predict call that directly follows a returning predict call with the
\* same arguments returns, and returns the same value.
PredictRepeats ==
    (/\ call.op = "predict" /\ call.kind = "return"
     /\ call'.op = "predict" /\ call'.kind # "abort"
     /\ call'.patch_name = call.patch_name /\ call'.V = call.V)
        => (call'.kind = "return" /\ call'.value = call.value)

\* C22 (as claimed): every predict call, returning or failing, leaves the
\* fitted flag, the stored solution and the registry unchanged, and two
\* predict calls with the same arguments and no fit in between return the
\* same result.
C22_PredictPureRead == [][PredictChangesNothing /\ PredictRepeats]_vars

\* C22, supporting: the frame part alone, for every predict call.
C22_PredictFrame == [][PredictChangesNothing]_vars

\* C22, supporting: the results repeat whenever the first call returned a
\* value computed from initialized storage only.
C22_PredictRepeatsDetermined ==
    [][(call.op = "predict" /\ call.kind = "return" /\ call.value = call.ret)
         => PredictRepeats]_vars

\* --------------------------------------------------------- kernel demo
\* C23: the kernel demo problem (block_a with targets 1, 2, 3, block_b
\* with targets 2, 1) is solved with converged set and a residual of 0
\* (below the convergence threshold).
C23_DemoConverges ==
    (sheaf_problem.solved /\ sheaf_problem.n_patches = 2
        /\ sheaf_problem.patches[1].name = "block_a")
        => (sheaf_problem.converged /\ TimesThousandToInt(sheaf_problem.residual) = 0)

\* C23 (what holds): the demo's residual is the square root of 5/2,
\* 1.581 to three decimals, and converged is not set.
C23_DemoResidual ==
    (sheaf_problem.solved /\ sheaf_problem.n_patches = 2
        /\ sheaf_problem.patches[1].name = "block_a")
        => (/\ ~sheaf_problem.converged
            /\ sheaf_problem.residual = SqrtOf(Rat(5, 2))
            /\ TimesThousandToInt(sheaf_problem.residual) = 1581)

\* ------------------------------------------------- kernel sheaf report
\* A number of thousandths written with three decimals: the integer
\* part, a decimal point, exactly three fractional digits.
ThreeDecimals(milli) ==
    (IF milli \div 1000 = 0 THEN <<"0">> ELSE DecimalDigits(milli \div 1000))
        \o <<".", DigitChar((milli \div 100) % 10), DigitChar((milli \div 10) % 10),
             DigitChar(milli % 10)>>

\* C25: the sheaf command prints, after "Residual (obstruction): ", the
\* residual truncated to three decimals (integer part, decimal point,
\* three fractional digits), and never prints the "[OK] Solver converged"
\* line together with the "[WARN] Non-optimal" line.
C25_SheafReport ==
    (uart.printed /\ ~uart.err)
        => (/\ uart.residual_text = ThreeDecimals(TimesThousandToInt(sheaf_problem.residual))
            /\ ~(uart.solver_converged /\ uart.warn))

\* C25 (what holds): a residual below 0.001 is printed as "0.000", any
\* other as the digits of its thousandths with no decimal point, and
\* exactly one of the lines "[OK] Optimal allocation found!" and
\* "[WARN] Non-optimal" follows, the first one when converged is set.
C25_SheafReportDigits ==
    (uart.printed /\ ~uart.err)
        => LET milli == TimesThousandToInt(sheaf_problem.residual)
           IN /\ milli = 0 => uart.residual_text = ThreeDecimals(0)
              /\ milli > 0 => uart.residual_text = DecimalDigits(milli)
              /\ uart.optimal = sheaf_problem.converged
              /\ uart.warn = ~sheaf_problem.converged
              /\ uart.solver_converged

\* ----------------------------------------------------------- feature row
\* The feature row predict built for its last call, with the config it
\* was built for.
PredictBuiltRow ==
    /\ call.op = "predict"
    /\ call.kind = "return"
    /\ call.ret.k = "dot"
    /\ call.patch_name \in DOMAIN patch_configs_
    /\ patch_configs_[call.patch_name].n_characters
          <= patch_configs_[call.patch_name].n_positions

\* Entry p * n_characters + j of `row` was assigned element (p, 0) of the
\* j-th character projection of V.
EntryAssigned(row, V, config, p, j) ==
    LET projs == decompose_into_characters(config.n_positions, V)
    IN /\ j \in DOMAIN projs
       /\ p \in DOMAIN projs[j].at
       /\ row.at[p * config.n_characters + j] = projs[j].at[p]

\* C24: for a config with n_characters <= n_positions and any signal V,
\* the feature row has n_positions * n_characters entries and every entry
\* p * n_characters + j holds element (p, 0) of the j-th projection of V;
\* none is left unassigned and no projection is read outside its rows.
C24_FeatureRow ==
    PredictBuiltRow
        => LET config == patch_configs_[call.patch_name]
               row == call.ret.conj_a
           IN /\ row.size = config.n_positions * config.n_characters
              /\ \A p \in 0 .. config.n_positions - 1, j \in 0 .. config.n_characters - 1 :
                    EntryAssigned(row, call.V, config, p, j)

\* C24 (what holds): the same for the signals with at least n_positions
\* rows.
C24_FeatureRowLongSignal ==
    (PredictBuiltRow /\ Rows(call.V) >= patch_configs_[call.patch_name].n_positions)
        => LET config == patch_configs_[call.patch_name]
               row == call.ret.conj_a
           IN /\ row.size = config.n_positions * config.n_characters
              /\ ~VecIndeterminate(row)
              /\ \A p \in 0 .. config.n_positions - 1, j \in 0 .. config.n_characters - 1 :
                    EntryAssigned(row, call.V, config, p, j)

\* ------------------------------------------------ registry and weights
\* The registry names the patches of the stored weights, with their shapes.
RegistryMatchesWeights ==
    /\ DOMAIN patch_configs_ = DOMAIN solution_.weights
    /\ \A name \in DOMAIN patch_configs_ \cap DOMAIN solution_.weights :
          /\ solution_.weights[name].rows = patch_configs_[name].n_positions
          /\ solution_.weights[name].cols = patch_configs_[name].n_characters

\* C26: after any sequence of fit calls, whenever is_fitted() is true
\* the config registry and the stored weights name the same patches and
\* each registered n_positions x n_characters is the shape of that
\* patch's weight matrix.
C26_RegistryMatchesWeights == fitted_ => RegistryMatchesWeights

\* C26 (what holds): the stored weights are those of the last fit call
\* that returned, and right after a fit call returned on a solver that
\* no fit call had failed on, registry and weights agree.
C26_AfterFirstReturn ==
    (call.op = "fit" /\ call.kind = "return" /\ ~hist.fitThrew /\ fitted_)
        => (DOMAIN solution_.weights \subseteq DOMAIN patch_configs_
            /\ \A name \in DOMAIN solution_.weights :
                  /\ solution_.weights[name].rows = patch_configs_[name].n_positions
                  /\ solution_.weights[name].cols = patch_configs_[name].n_characters)

\* ------------------------------------------------------- kernel console
\* What holds in every state of the console loop.
ConsoleInv ==
    /\ cmd_idx \in 0 .. 63
    /\ ~console.oob
    /\ console.write /= Stale => console.write \in 0 .. 63
    /\ console.stored \in {Stale, 0} \cup (32 .. 126)
    /\ console.stored = 0 <=> console.echo = "newline"
    /\ \A i \in DOMAIN cmd_buffer : cmd_buffer[i] \in {Stale, 0} \cup (32 .. 126)
    /\ console.reset => cmd_idx = 0
    /\ console.pc = "process" => console.lines = console.processed + 1
    /\ console.pc \in {"prompt", "read"} => console.lines = console.processed
    /\ (console.pc = "prompt" /\ console.processed > 0)
          => (/\ console.last_cmd = CString(cmd_buffer)
              /\ Len(console.last_cmd) = cmd_idx
              /\ \A i \in 1 .. Len(console.last_cmd) : console.last_cmd[i] \in 32 .. 126)

\* A backspace received at cmd_idx == 0 changes neither cmd_idx nor
\* cmd_buffer and echoes nothing.
BackspaceAtZero ==
    (console.pc = "read" /\ cmd_idx = 0 /\ console'.last_char \in {8, 127})
        => (cmd_idx' = 0 /\ cmd_buffer' = cmd_buffer /\ console'.echo = "none"
            /\ console'.pc = "read")

\* Between two prompts process_command is called exactly once, on the
\* line just completed, and the prompt resets cmd_idx to 0.
OncePerLine ==
    /\ console'.processed \in {console.processed, console.processed + 1}
    /\ console'.processed = console.processed + 1
          <=> (console.pc = "process" /\ console'.pc = "prompt")
    /\ (console.pc = "prompt" /\ console'.pc = "read") => cmd_idx' = 0

\* C29: in the console loop 0 <= cmd_idx <= 63 always holds, every write
\* into cmd_buffer (the terminating NUL included) is at an index in
\* 0..63, a backspace at cmd_idx == 0 changes nothing, only printable
\* characters (32..126) are stored, and each completed line is passed to
\* process_command exactly once with cmd_idx reset to 0 before the next.
C29_ConsoleLoop == [](console.running => ConsoleInv) /\ [][BackspaceAtZero /\ OncePerLine]_vars

\* C29 witness: a second line of 63 characters was completed (the 64th
\* cell took the NUL) and passed to process_command.
C29_Witness ==
    /\ console.pc = "prompt"
    /\ console.processed = 2
    /\ Len(console.last_cmd) = 63
    /\ cmd_buffer[63] = 0

\* ------------------------------------------------------------ bootloader
\* Control reaches the kernel only after the four steps, in order.
JumpAfterAllSteps ==
    boot.pc = "kernel"
        => (boot.steps = <<"load", "stack", "map", "exit">> /\ boot.exited
            /\ boot.failed = "none")

\* C27: the bootloader jumps to the kernel only after the kernel file was
\* loaded, the stack allocated, the memory map obtained and
\* ExitBootServices succeeded, in this order; no boot service is called
\* after ExitBootServices succeeded; and after every failure it has
\* returned an error status without jumping.
C27_BootSequence ==
    /\ JumpAfterAllSteps
    /\ ~boot.after_exit
    /\ boot.failed /= "none"
          => (boot.pc = "returned" /\ boot.ret /= "none" /\ EFI_ERROR(boot.ret))

\* C27 (what holds): the order of the steps, no boot service after
\* ExitBootServices succeeded, an error status returned after every
\* failure of a step before ExitBootServices; after a failed
\* ExitBootServices the bootloader neither returns nor jumps.
C27_BootSequenceButExit ==
    /\ JumpAfterAllSteps
    /\ ~boot.after_exit
    /\ boot.failed \notin {"none", "exit"}
          => (boot.pc = "returned" /\ boot.ret /= "none" /\ EFI_ERROR(boot.ret))
    /\ boot.failed = "exit" => (boot.pc = "hang" /\ boot.ret = "none" /\ ~boot.exited)

\* LoadKernelFile has returned to UefiMain.
LoadKernelFileReturned == boot.which = "edk2" /\ boot.pc = "load_ret"

\* C28: when LoadKernelFile returns, each of Root and File that was
\* opened has been closed exactly once and a FileInfo that was allocated
\* has been freed exactly once; after a failure the caller owns no
\* allocation and *Buffer is NULL; after a success *Buffer is allocated
\* and *Size is the number of bytes read.
C28_LoadKernelFileCleanup ==
    LoadKernelFileReturned
        => (/\ boot.Root \in {"none", "closed"}
            /\ boot.root_closes = (IF boot.Root = "none" THEN 0 ELSE 1)
            /\ boot.File \in {"none", "closed"}
            /\ boot.file_closes = (IF boot.File = "none" THEN 0 ELSE 1)
            /\ boot.FileInfo \in {"NULL", "freed"}
            /\ boot.info_frees = (IF boot.FileInfo = "NULL" THEN 0 ELSE 1)
            /\ EFI_ERROR(boot.Status)
                  => (boot.KernelBuffer = "NULL" /\ boot.buffer_frees \in {0, 1})
            /\ ~EFI_ERROR(boot.Status)
                  => (/\ boot.KernelBuffer = "allocated"
                      /\ boot.buffer_frees = 0
                      /\ boot.KernelSize = boot.bytes))

\* C28 witness: File->Read failed; the buffer was freed and *Buffer set
\* to NULL, both handles were closed and FileInfo had been freed.
C28_Witness ==
    /\ LoadKernelFileReturned
    /\ boot.Status = "EFI_DEVICE_ERROR"
    /\ boot.buffer_frees = 1
    /\ boot.KernelBuffer = "NULL"
    /\ boot.root_closes = 1
    /\ boot.file_closes = 1
    /\ boot.info_frees = 1

====
